---- MODULE Spec2Model ----
(***************************************************************************)
(* Register-mapped protocol adapter for the Growatt SPF5000 inverter       *)
(* (class GrowattSPF5000), in its three register layouts:                  *)
(*   layout 1  packed-hour layout      src/unnamed/part_001, lines 1-819   *)
(*   layout 2  0.1-unit layout         src/unnamed/part_001, lines 820-1685*)
(*   layout 3  extended-schedule layout src/unnamed/part_002               *)
(*                                                                         *)
(* JavaScript values are records [type, n, s]: a number is held as an      *)
(* exact count of tenths in n (30.5 is n = 305), a string in s.  Device    *)
(* registers are plain 16-bit words.                                       *)
(***************************************************************************)
EXTENDS Integers, Sequences, FiniteSets, TLC

VARIABLES
    layout,                 \* which of the three adapter classes is running
    touChargingValues,      \* this.touChargingValues: field name -> value
    touDischargingValues,   \* this.touDischargingValues: field name -> value
    holding,                \* the device's holding registers: address -> word
    input,                  \* the device's input registers: address -> word
    mutexLocked,            \* this.mutex: the lock is taken
    mutexQueue,             \* this.mutex: waiting acquire() calls, oldest first
    op,                     \* per activation: the operation it runs, or "idle"
    plan,                   \* per activation: the channel calls of the operation
    pc,                     \* per activation: index in plan of the current call
    phase,                  \* per activation: "idle", "waiting", "inflight"
    data,                   \* per activation: the windows read so far
    settled,                \* the promise settled last: what the caller got back
    issued,                 \* per activation: channel calls made by the current wrapper invocation
    snap,                   \* per activation: the cache as it was when its command began
    reqOrder,               \* activations inside a wrapper call, in the order they called acquire()
    merged,                 \* per activation: a merge hit its domain since its first read
    opsLeft,                \* operations the run may still start
    mergesLeft,             \* updateControl calls the run may still make
    report,                 \* how the last updateControl call ended, what it logged and returned
    backup,                 \* the backup utility: its variant, position, windows read and backupText
    timeline                \* per refresh between its two reads: what the device held since the first

vars == <<layout, touChargingValues, touDischargingValues, holding, input, mutexLocked,
          mutexQueue, op, plan, pc, phase, data, settled, issued, snap, reqOrder,
          merged, opsLeft, mergesLeft, report, backup, timeline>>

----------------------------------------------------------------------------
(* Bounds of the model *)

\* concurrently running operations (getSensorData, getControlValues, sendCommand)
NumTasks == 3

\* operations started in one run of Spec
MaxOps == 3

\* operations started and updateControl calls made in one run of SpecStore
StoreOps == 2

StoreMerges == 1

\* operations started and updateControl calls made in one run of SpecControl
ControlOps == 2

ControlMerges == 1

Tasks == 1..NumTasks

Layouts == {1, 2, 3}

Domains == {"touCharging", "touDischarging"}

----------------------------------------------------------------------------
(* JavaScript values and the operators the codec applies to them *)

Num(tenths) == [type |-> "number", n |-> tenths, s |-> ""]

Whole(k) == Num(k * 10)

Str(x) == [type |-> "string", n |-> 0, s |-> x]

Undefined == [type |-> "undefined", n |-> 0, s |-> ""]

IsInteger(v) == v.type = "number" /\ v.n % 10 = 0

\* ToInt32 of the bit operators: a number is truncated towards zero, anything
\* that is not a number here (undefined, a non-numeric string) becomes 0
ToInt32(v) ==
    IF v.type # "number" THEN 0
    ELSE IF v.n >= 0 THEN v.n \div 10 ELSE -((-v.n) \div 10)

RECURSIVE BitOr(_, _)
\* a | b on non-negative integers
BitOr(a, b) ==
    IF a = 0 THEN b
    ELSE IF b = 0 THEN a
    ELSE (IF a % 2 = 1 \/ b % 2 = 1 THEN 1 ELSE 0) + 2 * BitOr(a \div 2, b \div 2)

\* (hour << 8)
Shl8(v) == ToInt32(v) * 256

\* a boundary word that keeps the hour and drops the minute
PackHourOnly(hour, minute) == Whole(Shl8(hour))

\* (hour << 8) | minute
PackHourMinute(hour, minute) == Whole(BitOr(Shl8(hour), ToInt32(minute)))

\* word >> 8
Shr8(v) == Whole(ToInt32(v) \div 256)

\* a minute decoded with the mask 0x7F
LowSevenBits(v) == Whole(ToInt32(v) % 128)

\* word & 0xFF
LowByte(v) == Whole(ToInt32(v) % 256)

\* value * 10
Times10(v) == IF v.type = "number" THEN Num(v.n * 10) ELSE Undefined

\* word / 10
Div10(v) == IF v.type = "number" THEN Num(v.n \div 10) ELSE Undefined

\* (value === "ON") ? 1 : 0
SwitchWord(v) == IF v = Str("ON") THEN Whole(1) ELSE Whole(0)

\* (word == 1) ? "ON" : "OFF"
SwitchValue(v) == IF v = Whole(1) THEN Str("ON") ELSE Str("OFF")

\* data[i] of a window returned by a read: undefined past its end
At(window, i) == IF i < Len(window) THEN Whole(window[i + 1]) ELSE Undefined

----------------------------------------------------------------------------
(* The control domains: fields, defaults and validation schemas *)

HourFields == {"startHour1", "stopHour1", "startHour2", "stopHour2", "startHour3", "stopHour3"}

MinuteFields == {"startMinute1", "stopMinute1", "startMinute2", "stopMinute2",
                 "startMinute3", "stopMinute3"}

SwitchFields == {"ac", "enablePeriod1", "enablePeriod2", "enablePeriod3"}

PeriodFields == HourFields \cup MinuteFields \cup {"enablePeriod1", "enablePeriod2", "enablePeriod3"}

\* interface TouChargingValues / TouDischargingValues
Fields(l, d) ==
    IF l = 3
    THEN IF d = "touCharging"
         THEN {"chargePower", "stopSOC", "ac"} \cup PeriodFields
         ELSE {"dischargePower", "dischargeStopSOC"} \cup PeriodFields
    ELSE IF d = "touCharging"
         THEN {"uwAC2BatVolt", "chargeConfig", "utiChargeStart", "utiChargeEnd"}
         ELSE {"batLowToUtiVolt", "utiOutStart", "utiOutEnd"}

\* the initializers of touChargingValues and touDischargingValues
Defaults(l, d) ==
    IF l = 3
    THEN [f \in Fields(3, d) |->
            IF f \in SwitchFields THEN Str("OFF")
            ELSE IF f \in {"chargePower", "stopSOC", "dischargePower"} THEN Whole(100)
            ELSE IF f = "dischargeStopSOC" THEN Whole(5)
            ELSE Whole(0)]
    ELSE [f \in Fields(l, d) |->
            IF f = "uwAC2BatVolt" THEN Whole(50)
            ELSE IF f = "batLowToUtiVolt" THEN Whole(30)
            ELSE Whole(0)]

NumberRule(lo, hi) == [type |-> "number", minimum |-> lo, maximum |-> hi]

SwitchRule == [type |-> "string", minimum |-> 0, maximum |-> 0]

\* the `properties` of the schema each set command compiles
Schema(l, d) ==
    IF l = 3
    THEN [f \in Fields(3, d) |->
            IF f \in HourFields THEN NumberRule(0, 23)
            ELSE IF f \in MinuteFields THEN NumberRule(0, 59)
            ELSE IF f \in SwitchFields THEN SwitchRule
            ELSE NumberRule(0, 100)]
    ELSE [f \in Fields(l, d) |->
            IF f = "uwAC2BatVolt" THEN (IF l = 1 THEN NumberRule(0, 100) ELSE NumberRule(30, 100))
            ELSE IF f = "batLowToUtiVolt" THEN NumberRule(20, 90)
            ELSE IF f = "chargeConfig" THEN NumberRule(0, 2)
            ELSE NumberRule(0, 23)]

\* the strings of the model in which the unanchored pattern "ON|OFF" finds a match
MatchesOnOff(x) == x \in {"ON", "OFF", "NONE"}

\* a schema whose `maximum` keywords are not enforced
ValidValueNoMaximum(rule, v) ==
    IF rule.type = "number"
    THEN v.type = "number" /\ v.n >= rule.minimum * 10
    ELSE v.type = "string" /\ MatchesOnOff(v.s)

\* one property of the schema against one value (type, minimum, maximum, pattern)
ValidValue(rule, v) ==
    IF rule.type = "number"
    THEN v.type = "number" /\ v.n >= rule.minimum * 10 /\ v.n <= rule.maximum * 10
    ELSE v.type = "string" /\ MatchesOnOff(v.s)

\* the fields validate finds fault with: a required field that is missing, a
\* key the schema does not declare, a value its property does not admit
Violations(l, d, values) ==
    {f \in Fields(l, d) \cup DOMAIN values :
        \/ f \notin DOMAIN values
        \/ f \notin DOMAIN Schema(l, d)
        \/ ~ValidValue(Schema(l, d)[f], values[f])}

\* a throw that hands validate.errors to the caller
ThrownAll(errors) == errors

\* throw "Error validating setTouCharging": validate.errors is logged, the
\* thrown value is the string alone and lists no field
Thrown(errors) == {}

\* validate(this.tou...Values): required, additionalProperties: false, properties
Validate(l, d, values) ==
    /\ Fields(l, d) \subseteq DOMAIN values
    /\ DOMAIN values \subseteq DOMAIN Schema(l, d)
    /\ \A f \in DOMAIN values : ValidValue(Schema(l, d)[f], values[f])

----------------------------------------------------------------------------
(* Encoding: the write groups of the set commands, in the order written *)

\* a write group placed one register above its address
GroupShifted(address, values) == [addr |-> address + 1, values |-> values]

\* writeRegisters(modbusClient, address, values): the array and where it goes
Group(address, values) == [addr |-> address, values |-> values]

\* the three boundary/enable triples written to 1100-1108 (1080-1088)
PeriodWords(v) ==
    << PackHourMinute(v["startHour1"], v["startMinute1"]),
       PackHourMinute(v["stopHour1"], v["stopMinute1"]),
       SwitchWord(v["enablePeriod1"]),
       PackHourMinute(v["startHour2"], v["startMinute2"]),
       PackHourMinute(v["stopHour2"], v["stopMinute2"]),
       SwitchWord(v["enablePeriod2"]),
       PackHourMinute(v["startHour3"], v["startMinute3"]),
       PackHourMinute(v["stopHour3"], v["stopMinute3"]),
       SwitchWord(v["enablePeriod3"]) >>

\* a setTouCharging that writes its groups lowest address first in every layout
ChargingGroupsAscending(l, v) ==
    IF l = 1
    THEN << Group(2, << v["chargeConfig"] >>),
            Group(5, << Whole(Shl8(v["utiChargeStart"])), Whole(Shl8(v["utiChargeEnd"])) >>),
            Group(95, << v["uwAC2BatVolt"] >>) >>
    ELSE IF l = 2
    THEN << Group(2, << v["chargeConfig"] >>),
            Group(5, << v["utiChargeStart"], v["utiChargeEnd"] >>),
            Group(95, << Times10(v["uwAC2BatVolt"]) >>) >>
    ELSE << Group(1090, << v["chargePower"], v["stopSOC"], SwitchWord(v["ac"]) >>),
            Group(1100, PeriodWords(v)) >>

\* setTouCharging: writeRegisters1.. and the addresses they go to
ChargingGroups(l, v) ==
    IF l = 1
    THEN << Group(95, << v["uwAC2BatVolt"] >>),
            Group(2, << v["chargeConfig"] >>),
            Group(5, << Whole(Shl8(v["utiChargeStart"])), Whole(Shl8(v["utiChargeEnd"])) >>) >>
    ELSE IF l = 2
    THEN << Group(95, << Times10(v["uwAC2BatVolt"]) >>),
            Group(2, << v["chargeConfig"] >>),
            Group(5, << v["utiChargeStart"], v["utiChargeEnd"] >>) >>
    ELSE << Group(1090, << v["chargePower"], v["stopSOC"], SwitchWord(v["ac"]) >>),
            Group(1100, PeriodWords(v)) >>

\* setTouDischarging: writeRegisters1.. and the addresses they go to
DischargingGroups(l, v) ==
    IF l = 1
    THEN << Group(37, << v["batLowToUtiVolt"] >>),
            Group(3, << Whole(Shl8(v["utiOutStart"])), Whole(Shl8(v["utiOutEnd"])) >>) >>
    ELSE IF l = 2
    THEN << Group(37, << Times10(v["batLowToUtiVolt"]) >>),
            Group(3, << v["utiOutStart"], v["utiOutEnd"] >>) >>
    ELSE << Group(1070, << v["dischargePower"], v["dischargeStopSOC"] >>),
            Group(1080, PeriodWords(v)) >>

EncodeGroups(l, d, v) == IF d = "touCharging" THEN ChargingGroups(l, v) ELSE DischargingGroups(l, v)

----------------------------------------------------------------------------
(* Decoding: the object the get commands build from the windows they read *)

\* the fifteen period fields decoded from the nine-word window
PeriodValues(f, w) ==
    IF f = "startHour1" THEN Shr8(At(w, 0))
    ELSE IF f = "startMinute1" THEN LowByte(At(w, 0))
    ELSE IF f = "stopHour1" THEN Shr8(At(w, 1))
    ELSE IF f = "stopMinute1" THEN LowByte(At(w, 1))
    ELSE IF f = "enablePeriod1" THEN SwitchValue(At(w, 2))
    ELSE IF f = "startHour2" THEN Shr8(At(w, 3))
    ELSE IF f = "startMinute2" THEN LowByte(At(w, 3))
    ELSE IF f = "stopHour2" THEN Shr8(At(w, 4))
    ELSE IF f = "stopMinute2" THEN LowByte(At(w, 4))
    ELSE IF f = "enablePeriod2" THEN SwitchValue(At(w, 5))
    ELSE IF f = "startHour3" THEN Shr8(At(w, 6))
    ELSE IF f = "startMinute3" THEN LowByte(At(w, 6))
    ELSE IF f = "stopHour3" THEN Shr8(At(w, 7))
    ELSE IF f = "stopMinute3" THEN LowByte(At(w, 7))
    ELSE SwitchValue(At(w, 8))

\* getTouCharging: the object assigned to this.touChargingValues
DecodeCharging(l, data1, data2) ==
    IF l = 1
    THEN [f \in Fields(1, "touCharging") |->
            IF f = "uwAC2BatVolt" THEN At(data2, 0)
            ELSE IF f = "chargeConfig" THEN At(data1, 2)
            ELSE IF f = "utiChargeStart" THEN Shr8(At(data1, 6))
            ELSE Shr8(At(data1, 7))]
    ELSE IF l = 2
    THEN [f \in Fields(2, "touCharging") |->
            IF f = "uwAC2BatVolt" THEN Div10(At(data2, 0))
            ELSE IF f = "chargeConfig" THEN At(data1, 2)
            ELSE IF f = "utiChargeStart" THEN At(data1, 5)
            ELSE At(data1, 6)]
    ELSE [f \in Fields(3, "touCharging") |->
            IF f = "chargePower" THEN At(data1, 0)
            ELSE IF f = "stopSOC" THEN At(data1, 1)
            ELSE IF f = "ac" THEN SwitchValue(At(data1, 2))
            ELSE PeriodValues(f, data2)]

\* getTouDischarging: the object assigned to this.touDischargingValues
\* (layouts 1 and 2 name their windows holdingRegisters1 and holdingRegisters3)
DecodeDischarging(l, data1, data2) ==
    IF l = 1
    THEN [f \in Fields(1, "touDischarging") |->
            IF f = "batLowToUtiVolt" THEN At(data2, 0)
            ELSE IF f = "utiOutStart" THEN Shr8(At(data1, 0))
            ELSE Shr8(At(data1, 1))]
    ELSE IF l = 2
    THEN [f \in Fields(2, "touDischarging") |->
            IF f = "batLowToUtiVolt" THEN Div10(At(data2, 0))
            ELSE IF f = "utiOutStart" THEN At(data1, 0)
            ELSE At(data1, 1)]
    ELSE [f \in Fields(3, "touDischarging") |->
            IF f = "dischargePower" THEN At(data1, 0)
            ELSE IF f = "dischargeStopSOC" THEN At(data1, 1)
            ELSE PeriodValues(f, data2)]

Decode(l, d, data1, data2) ==
    IF d = "touCharging" THEN DecodeCharging(l, data1, data2) ELSE DecodeDischarging(l, data1, data2)

----------------------------------------------------------------------------
(* The register channel (modbusClient) and the device behind it *)

HoldingAddrs(l) ==
    IF l = 3
    THEN (45..50) \cup (1070..1071) \cup (1080..1088) \cup (1090..1092) \cup (1100..1108)
    ELSE (0..6) \cup {37} \cup (45..50) \cup {95}

\* what the device holds before the adapter's first write
InitialHolding(l) ==
    [a \in HoldingAddrs(l) |->
        IF a \in 45..50 THEN a - 44
        ELSE IF l = 1 THEN
            (IF a = 0 THEN 257 ELSE IF a = 2 THEN 1 ELSE IF a = 3 THEN 8 * 256
             ELSE IF a = 4 THEN 17 * 256 ELSE IF a = 5 THEN 256 ELSE IF a = 6 THEN 5 * 256
             ELSE IF a = 37 THEN 40 ELSE IF a = 95 THEN 60 ELSE 0)
        ELSE IF l = 2 THEN
            (IF a = 0 THEN 257 ELSE IF a = 2 THEN 1 ELSE IF a = 3 THEN 8
             ELSE IF a = 4 THEN 17 ELSE IF a = 5 THEN 1 ELSE IF a = 6 THEN 5
             ELSE IF a = 37 THEN 405 ELSE IF a = 95 THEN 600 ELSE 0)
        ELSE
            (IF a = 1070 THEN 80 ELSE IF a = 1071 THEN 10
             ELSE IF a = 1080 THEN 6 * 256 + 30 ELSE IF a = 1081 THEN 8 * 256
             ELSE IF a = 1082 THEN 1
             ELSE IF a = 1090 THEN 90 ELSE IF a = 1091 THEN 95 ELSE IF a = 1092 THEN 1
             ELSE IF a = 1100 THEN 256 ELSE IF a = 1101 THEN 5 * 256 + 15
             ELSE IF a = 1102 THEN 1 ELSE 0)]

Call(kind, address, length, values) ==
    [kind |-> kind, addr |-> address, len |-> length, values |-> values]

ReadHolding(address, length) == Call("readHolding", address, length, << >>)

ReadInput(address, length) == Call("readInput", address, length, << >>)

Write(group) == Call("write", group.addr, Len(group.values), group.values)

\* the 16-bit word a register keeps of a value handed to writeRegisters
StoredWord(v) == ToInt32(v) % 65536

\* modbusClient.writeRegisters(address, values) on a device that stores the words
WriteWords(h, call) ==
    [a \in DOMAIN h |->
        IF a >= call.addr /\ a < call.addr + call.len
        THEN StoredWord(call.values[a - call.addr + 1])
        ELSE h[a]]

\* modbusClient.readHoldingRegisters(address, length): the data of the result
HoldingWindow(h, call) == [i \in 1..call.len |-> h[call.addr + i - 1]]

\* modbusClient.readInputRegisters(address, length): the data of the result
InputWindow(registers, call) == [i \in 1..call.len |-> registers[call.addr + i - 1]]

\* the input registers the adapters read: 0..89 in one read, or 0..90 in four
InputAddrs == 0..90

\* input registers that are all zero
NoInput == [a \in InputAddrs |-> 0]

----------------------------------------------------------------------------
(* The operations and the channel calls each of them makes, in order *)

SetCommands == {"setTouCharging", "setTouDischarging"}

GetCommands == {"getTouCharging", "getTouDischarging"}

Commands == SetCommands \cup GetCommands \cup {"getTime"}

DomainOf(cmd) ==
    IF cmd \in {"setTouCharging", "getTouCharging"} THEN "touCharging" ELSE "touDischarging"

\* the reads of getTouCharging / getTouDischarging
GetPlan(l, d) ==
    IF d = "touCharging"
    THEN IF l = 3 THEN << ReadHolding(1090, 3), ReadHolding(1100, 9) >>
                  ELSE << ReadHolding(0, 7), ReadHolding(95, 1) >>
    ELSE IF l = 3 THEN << ReadHolding(1070, 2), ReadHolding(1080, 9) >>
                  ELSE << ReadHolding(3, 2), ReadHolding(37, 1) >>

\* the writes of setTouCharging / setTouDischarging, from the arrays built
\* before the first of them is awaited
SetPlan(l, d, values) ==
    LET groups == EncodeGroups(l, d, values)
    IN  [i \in 1..Len(groups) |-> Write(groups[i])]

\* the object a refresh of domain d builds when both its windows are read
\* from the registers h
DecodedFrom(l, d, h) ==
    Decode(l, d, HoldingWindow(h, GetPlan(l, d)[1]), HoldingWindow(h, GetPlan(l, d)[2]))

\* the read of getTime
TimePlan == << ReadHolding(45, 6) >>

\* the reads of getSensorData
SensorPlan(l) ==
    IF l = 2
    THEN << ReadInput(0, 26), ReadInput(26, 25), ReadInput(51, 25), ReadInput(76, 15) >>
    ELSE << ReadInput(0, 90) >>

\* the reads of getControlValues
ControlValuesPlan(l) == GetPlan(l, "touCharging") \o GetPlan(l, "touDischarging")

\* the domain whose cache is assigned when call number k of the operation returns
AssignedAt(operation, k) ==
    IF operation = "getTouCharging" /\ k = 2 THEN "touCharging"
    ELSE IF operation = "getTouDischarging" /\ k = 2 THEN "touDischarging"
    ELSE IF operation = "getControlValues" /\ k = 2 THEN "touCharging"
    ELSE IF operation = "getControlValues" /\ k = 4 THEN "touDischarging"
    ELSE "none"

\* the domain the operation is reading when it is at call number k
ReadingAt(operation, k) ==
    IF operation = "getTouCharging" THEN "touCharging"
    ELSE IF operation = "getTouDischarging" THEN "touDischarging"
    ELSE IF operation = "getControlValues" THEN (IF k <= 2 THEN "touCharging" ELSE "touDischarging")
    ELSE "none"

Cache(d) == IF d = "touCharging" THEN touChargingValues ELSE touDischargingValues

NoValue == [f \in {} |-> Undefined]

\* what the caller of an operation gets back: a rejection with its error and
\* the fields the thrown value lists (none, unless the throw puts them in), or
\* the value, which sendCommand wraps as { subTopic, values } for the get
\* commands and getTime and leaves undefined for the set commands
Promise(cmd, status, error, value, wasMerged) ==
    [cmd |-> cmd, status |-> status, error |-> error,
     subTopic |-> IF status # "fulfilled" THEN ""
                  ELSE IF cmd \in GetCommands THEN DomainOf(cmd)
                  ELSE IF cmd = "getTime" THEN "time" ELSE "",
     fields |-> {}, value |-> value, merged |-> wasMerged]

NoPromise == Promise("none", "none", "", NoValue, FALSE)

\* what the caller of updateControl and the console got: outcome is "returned"
\* when the call returned its ControlData[] and "threw" when it threw; logged
\* says that the catch block wrote its line to the console
\* an array that names the two domains and carries no values
ControlValuesEmpty(chargingValues, dischargingValues) ==
    << [subTopic |-> "touCharging", values |-> NoValue],
       [subTopic |-> "touDischarging", values |-> NoValue] >>

\* the array updateControl returns: both domains, each with its cached state
ControlValues(chargingValues, dischargingValues) ==
    << [subTopic |-> "touCharging", values |-> chargingValues],
       [subTopic |-> "touDischarging", values |-> dischargingValues] >>

Report(outcome, logged, returned) ==
    [outcome |-> outcome, logged |-> logged, returned |-> returned]

NoReport == Report("none", FALSE, << >>)

----------------------------------------------------------------------------
(* The mutex of the wrappers readInputRegisters, readHoldingRegisters and   *)
(* writeRegisters: acquire() takes a free lock at once and queues otherwise;*)
(* release() hands the lock to the oldest waiting acquire()                 *)

\* a wrapper that calls the channel without waiting for the lock
LockFreeAlways(locked) == TRUE

\* acquire() resolves at once
LockFree(locked) == ~locked

\* a mutex that resolves the newest waiting acquire() first
Pop(queue) == [next |-> queue[Len(queue)], rest |-> SubSeq(queue, 1, Len(queue) - 1)]

\* the waiting acquire() that release() resolves, and the queue left
Shift(queue) == [next |-> Head(queue), rest |-> Tail(queue)]

\* a wrapper that calls release() after the channel call instead of in `finally`
ReleasesOnReturn(ok) == ok

\* the wrapper's `finally { release() }`: run on return and on throw
Releases(ok) == TRUE

\* a wrapper that calls the channel again when the call failed
ReissuesOnFailure(ok) == ~ok

\* the wrapper calls the channel once and lets a failure propagate
Reissues(ok) == FALSE

\* the mutex after release(): granted is the activation whose acquire() resolved
AfterRelease(queue) ==
    IF queue = << >>
    THEN [locked |-> FALSE, granted |-> 0, queue |-> << >>]
    ELSE [locked |-> TRUE, granted |-> Shift(queue).next, queue |-> Shift(queue).rest]

Without(seq, t) == SelectSeq(seq, LAMBDA u : u # t)

----------------------------------------------------------------------------
(* Actions *)

\* the backup utility is not running
NoBackup == [variant |-> "none", pc |-> 0, windows |-> << >>, backupText |-> << >>]

Start(ops, updates) ==
    /\ layout \in Layouts
    /\ touChargingValues = Defaults(layout, "touCharging")
    /\ touDischargingValues = Defaults(layout, "touDischarging")
    /\ holding = InitialHolding(layout)
    /\ mutexLocked = FALSE
    /\ mutexQueue = << >>
    /\ op = [t \in Tasks |-> "idle"]
    /\ plan = [t \in Tasks |-> << >>]
    /\ pc = [t \in Tasks |-> 0]
    /\ phase = [t \in Tasks |-> "idle"]
    /\ data = [t \in Tasks |-> << >>]
    /\ settled = NoPromise
    /\ issued = [t \in Tasks |-> 0]
    /\ snap = [t \in Tasks |-> NoValue]
    /\ reqOrder = << >>
    /\ merged = [t \in Tasks |-> FALSE]
    /\ opsLeft = ops
    /\ mergesLeft = updates
    /\ report = NoReport
    /\ backup = NoBackup
    /\ timeline = [t \in Tasks |-> {}]
    /\ input = NoInput

Init == Start(MaxOps, 0)

InitStore == Start(StoreOps, StoreMerges)

\* activation t is the free activation a new operation runs in
Free(t) ==
    /\ phase[t] = "idle"
    /\ \A u \in Tasks : u < t => phase[u] # "idle"
    /\ opsLeft > 0

\* an operation starts and makes its first wrapper call, all before its first await
Begin(t, operation, calls, snapshot) ==
    /\ op' = [op EXCEPT ![t] = operation]
    /\ plan' = [plan EXCEPT ![t] = calls]
    /\ pc' = [pc EXCEPT ![t] = 1]
    /\ data' = [data EXCEPT ![t] = << >>]
    /\ opsLeft' = opsLeft - 1
    /\ snap' = [snap EXCEPT ![t] = snapshot]
    /\ merged' = [merged EXCEPT ![t] = FALSE]
    /\ reqOrder' = Append(reqOrder, t)
    /\ IF LockFree(mutexLocked)
       THEN /\ mutexLocked' = TRUE
            /\ phase' = [phase EXCEPT ![t] = "inflight"]
            /\ issued' = [issued EXCEPT ![t] = 1]
            /\ UNCHANGED mutexQueue
       ELSE /\ mutexQueue' = Append(mutexQueue, t)
            /\ phase' = [phase EXCEPT ![t] = "waiting"]
            /\ issued' = [issued EXCEPT ![t] = 0]
            /\ UNCHANGED mutexLocked
    /\ UNCHANGED <<layout, input, touChargingValues, touDischargingValues, holding, settled,
                   mergesLeft, report, backup, timeline>>

\* an operation throws before its first wrapper call
Reject(t, operation, error, listed) ==
    /\ settled' = [Promise(operation, "rejected", error, NoValue, FALSE) EXCEPT !.fields = listed]
    /\ opsLeft' = opsLeft - 1
    /\ UNCHANGED <<layout, input, touChargingValues, touDischargingValues, holding, mutexLocked,
                   mutexQueue, op, plan, pc, phase, data, issued, snap, reqOrder, merged,
                   mergesLeft, report, backup, timeline>>

\* sendCommand: setTouCharging / setTouDischarging
SetTou(t, cmd) ==
    /\ Free(t)
    /\ cmd \in SetCommands
    /\ LET d == DomainOf(cmd)
       IN  IF Validate(layout, d, Cache(d))
           THEN Begin(t, cmd, SetPlan(layout, d, Cache(d)), Cache(d))
           ELSE Reject(t, cmd, "Error validating " \o cmd,
                       Thrown(Violations(layout, d, Cache(d))))

\* sendCommand: getTouCharging / getTouDischarging
GetTou(t, cmd) ==
    /\ Free(t)
    /\ cmd \in GetCommands
    /\ Begin(t, cmd, GetPlan(layout, DomainOf(cmd)), NoValue)

\* sendCommand: getTime
GetTime(t) ==
    /\ Free(t)
    /\ Begin(t, "getTime", TimePlan, NoValue)

\* an error text that does not say which command was refused
UnknownErrorAnonymous(cmd) == "Unknown command"

\* throw `Unknown command: ${command.command}`
UnknownError(cmd) == "Unknown command: " \o cmd

\* sendCommand: the default case of the switch
UnknownCommand(t, cmd) ==
    /\ Free(t)
    /\ cmd \notin Commands
    /\ Reject(t, cmd, UnknownError(cmd), {})

GetControlValues(t) ==
    /\ Free(t)
    /\ Begin(t, "getControlValues", ControlValuesPlan(layout), NoValue)

GetSensorData(t) ==
    /\ Free(t)
    /\ Begin(t, "getSensorData", SensorPlan(layout), NoValue)

\* a clock object read one word too far into the window
TimeValuesShifted(window) ==
    [year |-> At(window, 1), month |-> At(window, 2), day |-> At(window, 3),
     hour |-> At(window, 4), minute |-> At(window, 5), second |-> At(window, 6)]

\* the object getTime returns
TimeValues(window) ==
    [f \in {"year", "month", "day", "hour", "minute", "second"} |->
        IF f = "year" THEN At(window, 0) ELSE IF f = "month" THEN At(window, 1)
        ELSE IF f = "day" THEN At(window, 2) ELSE IF f = "hour" THEN At(window, 3)
        ELSE IF f = "minute" THEN At(window, 4) ELSE At(window, 5)]

\* statusMap of parseInputRegisters / parseInputRegisters1
StatusMap ==
    [c \in 0..12 |->
        IF c = 0 THEN "Standby" ELSE IF c = 1 THEN "PV an Grid Combine Discharge"
        ELSE IF c = 2 THEN "Discharge" ELSE IF c = 3 THEN "Fault"
        ELSE IF c = 4 THEN "Flash" ELSE IF c = 5 THEN "PV charge"
        ELSE IF c = 6 THEN "AC charge" ELSE IF c = 7 THEN "Combine charge"
        ELSE IF c = 8 THEN "Combine charge and Bypass"
        ELSE IF c = 9 THEN "PV charge and Bypass"
        ELSE IF c = 10 THEN "AC charge and Bypass" ELSE IF c = 11 THEN "Bypass"
        ELSE "PV charge and Discharge"]

\* errorMap of parseInputRegisters / parseInputRegisters2
ErrorMap ==
    [c \in {2, 3, 5, 6, 7, 8, 9, 51, 52, 53, 56, 58, 60, 61, 62, 80, 81} |->
        IF c = 2 THEN "Over Temperature" ELSE IF c = 3 THEN "Bat Voltage High"
        ELSE IF c = 5 THEN "Output short" ELSE IF c = 6 THEN "Output voltage high"
        ELSE IF c = 7 THEN "Over Load" ELSE IF c = 8 THEN "Bus voltage high"
        ELSE IF c = 9 THEN "Bus start fail" ELSE IF c = 51 THEN "over current"
        ELSE IF c = 52 THEN "Bus voltage low" ELSE IF c = 53 THEN "inverter softstart fail"
        ELSE IF c = 56 THEN "battery open" ELSE IF c = 58 THEN "output voltage low"
        ELSE IF c = 60 THEN "negtive power" ELSE IF c = 61 THEN "PV voltage high"
        ELSE IF c = 62 THEN "SCI com error" ELSE IF c = 80 THEN "can fault"
        ELSE "host loss"]

\* a lookup that yields undefined for a code the table does not have
LookupOnly(map, code) ==
    IF code.type = "number" /\ ToInt32(code) \in DOMAIN map
    THEN Str(map[ToInt32(code)]) ELSE Undefined

\* map[code] || code: the table's text, which is never empty, or the code itself
Lookup(map, code) ==
    IF code.type = "number" /\ ToInt32(code) \in DOMAIN map
    THEN Str(map[ToInt32(code)]) ELSE code

\* (high << 16 | low) / 10.0: the shift and the or work on 32-bit signed
\* integers, so a high word with its top bit set gives a negative number; a low
\* word that is undefined counts as 0
Pair(high, low) ==
    LET h == ToInt32(high) % 65536
        l == ToInt32(low) % 65536
    IN  Num((IF h < 32768 THEN h ELSE h - 65536) * 65536 + l)

\* the read of getSensorData whose window holds input register a: the one
\* read of 90 registers, or the chunk of startdata1..4 = 0, 26, 51, 76
ChunkOf(l, a) ==
    IF l # 2 THEN 1
    ELSE IF a < 26 THEN 1 ELSE IF a < 51 THEN 2 ELSE IF a < 76 THEN 3 ELSE 4

\* data[a - offset] in the window the code takes for the field at address
\* home: the single window of 90 words, or the chunk that holds home
WordIn(l, windows, home, a) ==
    LET k == ChunkOf(l, home)
        offset == IF l # 2 THEN 0 ELSE IF k = 1 THEN 0 ELSE IF k = 2 THEN 26
                  ELSE IF k = 3 THEN 51 ELSE 76
    IN  At(windows[k], a - offset)

\* the object getSensorData returns: parseInputRegisters, or the three objects
\* of parseInputRegisters1, parseInputRegisters2 and parseInputRegisters4 spread
\* into one
SensorValues(l, windows) ==
    LET Single(a) == WordIn(l, windows, a, a)
        Double(a) == Pair(WordIn(l, windows, a, a), WordIn(l, windows, a, a + 1))
        Sum(x, y) == Num(x.n + y.n)
        common ==
            [inverterStatus |-> Lookup(StatusMap, Single(0)),
             ppv |-> Double(3), vpv1 |-> Div10(Single(1)), ppv1 |-> Double(3),
             vpv2 |-> Div10(Single(2)), ppv2 |-> Double(5), vgrid |-> Div10(Single(20)),
             epvToday |-> Sum(Double(48), Double(52)),
             epvTotal |->
                IF l = 2
                THEN Sum(Pair(WordIn(l, windows, 50, 50), WordIn(l, windows, 51, 51)),
                         Double(54))
                ELSE Sum(Double(50), Double(54)),
             inverterTemperature |-> Div10(Single(25)),
             inverterError |-> Lookup(ErrorMap, Single(40)),
             pDischarge |-> Double(73), pCharge |-> Double(77), soc |-> Single(18),
             pImport |-> Double(36), pExport |-> Double(69), pLoad |-> Double(69),
             eImportToday |-> Double(48), eImportTotal |-> Double(50),
             eExportToday |-> Double(85), eExportTotal |-> Double(87),
             eDischargeToday |-> Double(60), eDischargeTotal |-> Double(62),
             eChargeToday |-> Double(60), eChargeTotal |-> Double(62),
             eLoadToday |-> Double(64), eLoadTotal |-> Double(66)]
        chunked == [buck1curr |-> Div10(Single(7)), constantpowerok |-> Single(47)]
    IN  IF l = 2 THEN common @@ chunked ELSE common

\* a set command that builds each write array from the cache as it is when the
\* write is made
CallOfLate(t) ==
    IF op[t] \in SetCommands
    THEN SetPlan(layout, DomainOf(op[t]), Cache(DomainOf(op[t])))[pc[t]]
    ELSE plan[t][pc[t]]

\* the channel call activation t is in: for a write, the array built when the
\* command began
CallOf(t) == plan[t][pc[t]]

\* a refresh that keeps the cached value of every field the cache already has
RefreshedKeepingOld(old, decoded) ==
    [f \in DOMAIN decoded |-> IF f \in DOMAIN old THEN old[f] ELSE decoded[f]]

\* this.touChargingValues = { ... }: the decoded object replaces the cached one
Refreshed(old, decoded) == decoded

\* a refresh that assigns the cache also when its read failed
AssignsOnFailure(ok, d) == d

\* `const holdingRegisters2 = await ...` above the assignment: a read that
\* fails throws past it, so the cache of d is assigned only when it returned
Assigns(ok, d) == IF ok THEN d ELSE "none"

\* a command that goes on to its next write group after a failed one
ContinuesAfterFailure(ok, last) == ~last

\* a command that returns when its first wrapper call has returned
ContinuesNever(ok, last) == FALSE

\* `await this.writeRegisters(...)` in sequence: the operation makes its next
\* wrapper call when this one returned and is not its last; a failure leaves it
Continues(ok, last) == ok /\ ~last

\* the channel call of activation t returns (ok) or fails (~ok): the wrapper
\* releases the mutex and the operation runs on to its next wrapper call or its end
Complete(t, ok) ==
    /\ phase[t] = "inflight"
    /\ IF Reissues(ok)
       THEN /\ issued' = [issued EXCEPT ![t] = @ + 1]
            /\ UNCHANGED <<layout, input, touChargingValues, touDischargingValues, holding,
                           mutexLocked, mutexQueue, op, plan, pc, phase, data, settled,
                           snap, reqOrder, merged, opsLeft, mergesLeft, report, backup, timeline>>
       ELSE
        LET call == CallOf(t)
            window == IF call.kind = "readHolding" THEN HoldingWindow(holding, call)
                      ELSE IF call.kind = "readInput" THEN InputWindow(input, call)
                      ELSE << >>
            windows == Append(data[t], window)
            last == pc[t] = Len(plan[t])
            assign == Assigns(ok, AssignedAt(op[t], pc[t]))
            decoded == Decode(layout, assign, windows[Len(windows) - 1], windows[Len(windows)])
            continues == Continues(ok, last)
            m == IF Releases(ok) THEN AfterRelease(mutexQueue)
                 ELSE [locked |-> mutexLocked, granted |-> 0, queue |-> mutexQueue]
            again == continues /\ LockFree(m.locked)
            waits == continues /\ ~LockFree(m.locked)
            value == IF op[t] \in GetCommands THEN Refreshed(Cache(assign), decoded)
                     ELSE IF op[t] = "getTime" THEN TimeValues(window)
                     ELSE IF op[t] = "getSensorData" /\ last THEN SensorValues(layout, windows)
                     ELSE NoValue
        IN  /\ holding' = IF ok /\ call.kind = "write" THEN WriteWords(holding, call) ELSE holding
            /\ touChargingValues' =
                    IF assign = "touCharging"
                    THEN Refreshed(touChargingValues, decoded) ELSE touChargingValues
            /\ touDischargingValues' =
                    IF assign = "touDischarging"
                    THEN Refreshed(touDischargingValues, decoded) ELSE touDischargingValues
            /\ mutexLocked' = (m.locked \/ again)
            /\ mutexQueue' = IF waits THEN Append(m.queue, t) ELSE m.queue
            /\ reqOrder' = IF continues THEN Append(Without(reqOrder, t), t)
                           ELSE Without(reqOrder, t)
            /\ phase' = [u \in Tasks |->
                    IF u = t THEN (IF again THEN "inflight" ELSE IF waits THEN "waiting" ELSE "idle")
                    ELSE IF u = m.granted THEN "inflight"
                    ELSE phase[u]]
            /\ issued' = [u \in Tasks |->
                    IF u = t THEN (IF again THEN 1 ELSE 0)
                    ELSE IF u = m.granted THEN 1
                    ELSE issued[u]]
            /\ pc' = [pc EXCEPT ![t] = IF continues THEN @ + 1 ELSE 0]
            /\ data' = [data EXCEPT ![t] =
                    IF continues /\ assign = "none" /\ call.kind # "write"
                    THEN windows ELSE << >>]
            /\ op' = [op EXCEPT ![t] = IF continues THEN @ ELSE "idle"]
            /\ plan' = [plan EXCEPT ![t] = IF continues THEN @ ELSE << >>]
            /\ settled' =
                    IF continues THEN settled
                    ELSE IF ok THEN Promise(op[t], "fulfilled", "", value, merged[t])
                    ELSE Promise(op[t], "rejected", "transport", NoValue, merged[t])
            /\ snap' = [snap EXCEPT ![t] = IF continues THEN @ ELSE NoValue]
            /\ merged' = [merged EXCEPT ![t] = continues /\ assign = "none" /\ @]
            /\ timeline' = [u \in Tasks |->
                    IF u = t
                    THEN (IF continues /\ assign = "none" /\ ReadingAt(op[t], pc[t]) # "none"
                          THEN {DecodedFrom(layout, ReadingAt(op[t], pc[t]), holding)}
                          ELSE {})
                    ELSE IF timeline[u] # {} /\ ok /\ call.kind = "write"
                    THEN timeline[u] \cup {DecodedFrom(layout, ReadingAt(op[u], pc[u]), holding')}
                    ELSE timeline[u]]
            /\ UNCHANGED <<layout, input, opsLeft, mergesLeft, report, backup>>

\* names every object inherits from Object.prototype: typeof object[name] is
\* not 'undefined' for them although the object has no such field
PrototypeMembers == {"toString", "constructor"}

\* a merge without the typeof test: every key of the message is assigned
DefinedAlways(values, key) == TRUE

\* typeof values[key] !== 'undefined'
Defined(values, key) == key \in DOMAIN values \/ key \in PrototypeMembers

\* values[key] = v
Assign(values, key, v) == [k \in DOMAIN values \cup {key} |-> IF k = key THEN v ELSE values[k]]

\* the forEach of updateControl over the keys of the parsed message, for one domain
Merge(values, control) ==
    [k \in DOMAIN values \cup {key \in DOMAIN control : Defined(values, key)} |->
        IF k \in DOMAIN control THEN control[k] ELSE values[k]]

\* the parsed control messages the model sends, per layout and topic
Messages(l) ==
    IF l = 3
    THEN { [subTopic |-> "touDischarging", control |-> ("dischargeStopSOC" :> Whole(5))],
           [subTopic |-> "touDischarging", control |-> ("startHour1" :> Whole(7))],
           [subTopic |-> "touDischarging", control |-> ("dischargePower" :> Whole(150))],
           [subTopic |-> "touCharging", control |-> ("startMinute1" :> Whole(45))],
           [subTopic |-> "touCharging", control |-> ("startHour1" :> Whole(24))],
           [subTopic |-> "other", control |-> ("startHour1" :> Whole(8))] }
    ELSE { [subTopic |-> "touDischarging", control |-> ("utiOutEnd" :> Whole(9))],
           [subTopic |-> "touDischarging", control |-> ("batLowToUtiVolt" :> Whole(150))],
           [subTopic |-> "touCharging", control |-> ("utiChargeStart" :> Whole(6))],
           [subTopic |-> "touCharging", control |-> ("utiChargeEnd" :> Whole(24))],
           [subTopic |-> "other", control |-> ("chargeConfig" :> Whole(1))] }

\* a test of the topic that every topic passes
AddressedAlways(subTopic, d) == TRUE

\* subTopic == 'touCharging', subTopic == 'touDischarging'
Addressed(subTopic, d) == subTopic = d

\* updateControl(subTopic, controlMessage) with a message that parses to an object
UpdateControl(subTopic, control) ==
    /\ mergesLeft > 0
    /\ mergesLeft' = mergesLeft - 1
    /\ touChargingValues' =
            IF Addressed(subTopic, "touCharging") THEN Merge(touChargingValues, control)
            ELSE touChargingValues
    /\ touDischargingValues' =
            IF Addressed(subTopic, "touDischarging") THEN Merge(touDischargingValues, control)
            ELSE touDischargingValues
    /\ report' = Report("returned", FALSE,
                         ControlValues(touChargingValues', touDischargingValues'))
    /\ merged' = [t \in Tasks |->
            merged[t] \/ (phase[t] # "idle" /\ ReadingAt(op[t], pc[t]) = subTopic
                          /\ Cache(subTopic)' # Cache(subTopic))]
    /\ UNCHANGED <<layout, input, holding, mutexLocked, mutexQueue, op, plan, pc, phase, data,
                   settled, issued, snap, reqOrder, opsLeft, backup, timeline>>

\* command names that are no case of the switch
UnknownNames == {"unknownThing", "settouCharging", "toString"}

\* the first argument of updateControl
SubTopics == Domains \cup {"other"}

\* a controlMessage by what JSON.parse makes of it: an object (control holds
\* its fields), text that is no JSON, or the JSON null, a number, a string or
\* an array
Message(kind, control) == [kind |-> kind, control |-> control]

NoControl == [k \in {} |-> Undefined]

\* the controlMessage values the model sends, per layout: a declared field, a
\* field of the other domain, an undeclared key next to a declared one, two
\* fields of the charging domain with values above their maximum, names
\* of Object.prototype members, and the messages that are no object
ControlMessages(l) ==
    { Message("object", IF l = 3 THEN ("stopSOC" :> Whole(80))
                                 ELSE ("chargeConfig" :> Whole(2))),
      Message("object", IF l = 3 THEN ("dischargePower" :> Whole(60))
                                 ELSE ("utiOutStart" :> Whole(4))),
      Message("object", IF l = 3 THEN ("startHour1" :> Whole(9) @@ "unknownThing" :> Whole(1))
                                 ELSE ("unknownThing" :> Whole(1))),
      Message("object", IF l = 3 THEN ("startHour1" :> Whole(24) @@ "stopSOC" :> Whole(101))
                                 ELSE ("utiChargeStart" :> Whole(24) @@ "utiChargeEnd" :> Whole(25))),
      Message("object", ("toString" :> Whole(1))),
      Message("object", ("constructor" :> Str("x"))),
      Message("invalid", NoControl),
      Message("null", NoControl),
      Message("number", NoControl),
      Message("string", NoControl),
      Message("array", NoControl) }

\* JSON.parse(...) or Object.keys(control) throws: the text is no JSON
\* (SyntaxError), or it is the JSON null (TypeError)
Throws(msg) == msg.kind \in {"invalid", "null"}

\* the keys Object.keys(control) lists and the values control[key] has: the
\* fields of an object, the indices of a string ("ab") or an array ([1, 2]),
\* nothing for a number
ControlOf(msg) ==
    IF msg.kind = "object" THEN msg.control
    ELSE IF msg.kind = "string" THEN ("0" :> Str("a") @@ "1" :> Str("b"))
    ELSE IF msg.kind = "array" THEN ("0" :> Whole(1) @@ "1" :> Whole(2))
    ELSE NoControl

\* updateControl(subTopic, controlMessage) with any message: the catch block
\* logs and the method returns the control values as it does after a merge
UpdateControlMessage(subTopic, msg) ==
    IF Throws(msg)
    THEN /\ mergesLeft > 0
         /\ mergesLeft' = mergesLeft - 1
         /\ report' = Report("returned", TRUE,
                              ControlValues(touChargingValues, touDischargingValues))
         /\ UNCHANGED <<layout, input, touChargingValues, touDischargingValues, holding,
                        mutexLocked, mutexQueue, op, plan, pc, phase, data, settled,
                        issued, snap, reqOrder, merged, opsLeft, backup, timeline>>
    ELSE UpdateControl(subTopic, ControlOf(msg))

\* (getTouCharging and getTouDischarging run here inside getControlValues)
Next ==
    \/ \E t \in Tasks, cmd \in SetCommands : SetTou(t, cmd)
    \/ \E t \in Tasks : GetTime(t)
    \/ \E t \in Tasks : GetControlValues(t)
    \/ \E t \in Tasks : GetSensorData(t)
    \/ \E t \in Tasks, ok \in BOOLEAN : Complete(t, ok)

\* the arbiter under every operation of the adapter
Spec == Init /\ [][Next]_vars

NextStore ==
    \/ \E t \in Tasks, cmd \in SetCommands : SetTou(t, cmd)
    \/ \E t \in Tasks, cmd \in GetCommands : GetTou(t, cmd)
    \/ \E t \in Tasks, ok \in BOOLEAN : Complete(t, ok)
    \/ \E m \in Messages(layout) : UpdateControl(m.subTopic, m.control)

\* the control-state store: merges, refreshes and flushes
SpecStore == InitStore /\ [][NextStore]_vars

InitControl == Start(ControlOps, ControlMerges)

NextControl ==
    \/ \E subTopic \in SubTopics, msg \in ControlMessages(layout) :
            UpdateControlMessage(subTopic, msg)
    \/ \E t \in Tasks, cmd \in UnknownNames : UnknownCommand(t, cmd)
    \/ \E t \in Tasks, cmd \in SetCommands : SetTou(t, cmd)
    \/ \E t \in Tasks : Complete(t, TRUE)

\* the entry points of the adapter with arbitrary arguments: control messages
\* of every kind, unknown command names, and the set commands
SpecControl == InitControl /\ [][NextControl]_vars

----------------------------------------------------------------------------
(* Properties of the arbiter, checked under Spec *)

InFlight == {t \in Tasks : phase[t] = "inflight"}

Waiting == {t \in Tasks : phase[t] = "waiting"}

\* a set command that has had its first write acknowledged and still has writes to make
MidFlush(t) == op[t] \in SetCommands /\ pc[t] >= 2

Before(t, u, seq) ==
    \E i, j \in 1..Len(seq) : i < j /\ seq[i] = t /\ seq[j] = u

\* C1: at most one call to the register channel is in flight at any time,
\* whatever operations run concurrently
C1_OneCallInFlight == Cardinality(InFlight) <= 1

\* C1 witness: one call is in flight while another operation waits for the mutex
C1_Witness == InFlight # {} /\ Waiting # {}

\* C6 as stated: between the first and the last write of a set command no
\* channel call of another operation is executed
C6_FlushAtomic ==
    \A t, u \in Tasks : (t # u /\ MidFlush(t)) => phase[u] # "inflight"

\* C6 amended: a flush is exclusive per write group only. While a write group
\* of a set command is in flight no other channel call is in flight; while the
\* command waits for a later write group, the call in flight is one whose
\* wrapper asked for the mutex before that write group did
C6_GroupExclusive ==
    \A t \in Tasks : op[t] \in SetCommands =>
        /\ phase[t] = "inflight" => InFlight = {t}
        /\ phase[t] = "waiting" => \A u \in InFlight : Before(u, t, reqOrder)

\* C6 witness: a set command is between its first and last write and waits,
\* while the channel call of another operation is in flight
C6_Witness ==
    \E t, u \in Tasks : t # u /\ MidFlush(t) /\ phase[t] = "waiting" /\ phase[u] = "inflight"

\* C7: channel calls are executed in the order in which their wrappers asked
\* for the mutex: the call in flight is the oldest outstanding request
C7_Fifo == \A t \in InFlight : Head(reqOrder) = t

\* C7 witness: a call is in flight with two later requests waiting behind it
C7_Witness == InFlight # {} /\ Len(mutexQueue) >= 2

\* C8: the mutex is held only while a channel call is in flight, also after a
\* failed call, and a waiting operation always has a call in flight ahead of it
C8_NoLeak ==
    /\ mutexLocked <=> InFlight # {}
    /\ Waiting # {} => InFlight # {}

\* C8 witness: a call failed, its failure reached the caller, and the call of
\* another operation is in flight
C8_Witness ==
    /\ settled.status = "rejected" /\ settled.error = "transport"
    /\ InFlight # {}

\* C9: every wrapper invocation makes exactly one channel call: one call is
\* out while it holds the lock, none is re-issued, and a failed call ends the
\* operation with the failure
C9_OneCallPerInvocation ==
    \A t \in Tasks :
        /\ phase[t] = "inflight" => issued[t] = 1
        /\ phase[t] # "inflight" => issued[t] = 0

\* C9 witness: a channel call has failed and the failure was delivered
C9_Witness ==
    /\ settled.status = "rejected" /\ settled.error = "transport"
    /\ \A t \in Tasks : issued[t] <= 1

----------------------------------------------------------------------------
(* Properties of the control-state store, checked under SpecStore *)

\* this step is the arrival of set command cmd, run in activation t
DispatchesSet(t, cmd) ==
    /\ Free(t)
    /\ opsLeft' = opsLeft - 1
    /\ op'[t] = cmd \/ (op' = op /\ settled'.cmd = cmd)

\* the cached state of the domain lacks a field or has a numeric field that is
\* not a number between the bounds the schema declares for it
OutsideDeclared(l, d, values) ==
    \E f \in Fields(l, d) :
        \/ f \notin DOMAIN values
        \/ /\ Schema(l, d)[f].type = "number"
           /\ \/ values[f].type # "number"
              \/ values[f].n < 10 * Schema(l, d)[f].minimum
              \/ values[f].n > 10 * Schema(l, d)[f].maximum

\* C2: a set command that arrives while the cached state of its domain has a
\* numeric field outside its declared range, or lacks a field, fails with a
\* validation error; no write is queued or made for it and the cache, the
\* device and the mutex are left as they were
C2_InvalidSetRejected ==
    [][\A t \in Tasks, cmd \in SetCommands :
        (DispatchesSet(t, cmd) /\ OutsideDeclared(layout, DomainOf(cmd), Cache(DomainOf(cmd))))
        => /\ settled' = Promise(cmd, "rejected", "Error validating " \o cmd, NoValue, FALSE)
           /\ UNCHANGED <<op, plan, pc, phase, issued, reqOrder>>
           /\ UNCHANGED <<holding, mutexLocked, mutexQueue>>
           /\ UNCHANGED <<touChargingValues, touDischargingValues>>]_vars

\* C2 witness: a set command was rejected by validation and the cache still
\* holds the out-of-range value
C2_Witness ==
    /\ settled.cmd \in SetCommands
    /\ settled.status = "rejected"
    /\ settled.error = "Error validating " \o settled.cmd
    /\ OutsideDeclared(layout, DomainOf(settled.cmd), Cache(DomainOf(settled.cmd)))

\* where the register map puts a field: the register, and the part of its word
\* ("word": the value itself, "x10": ten times the value, "high": bits 15-8,
\* "low": bits 7-0, "switch": 1 for "ON" and 0 otherwise)
Place(l, d, f) ==
    LET at(a, part) == [addr |-> a, part |-> part]
        head == IF d = "touCharging" THEN 1090 ELSE 1070
        periods == IF d = "touCharging" THEN 1100 ELSE 1080
        period(i) == periods + 3 * (i - 1)
    IN  IF l = 3
        THEN CASE f \in {"chargePower", "dischargePower"} -> at(head, "word")
               [] f \in {"stopSOC", "dischargeStopSOC"} -> at(head + 1, "word")
               [] f = "ac" -> at(head + 2, "switch")
               [] f = "startHour1" -> at(period(1), "high")
               [] f = "startMinute1" -> at(period(1), "low")
               [] f = "stopHour1" -> at(period(1) + 1, "high")
               [] f = "stopMinute1" -> at(period(1) + 1, "low")
               [] f = "enablePeriod1" -> at(period(1) + 2, "switch")
               [] f = "startHour2" -> at(period(2), "high")
               [] f = "startMinute2" -> at(period(2), "low")
               [] f = "stopHour2" -> at(period(2) + 1, "high")
               [] f = "stopMinute2" -> at(period(2) + 1, "low")
               [] f = "enablePeriod2" -> at(period(2) + 2, "switch")
               [] f = "startHour3" -> at(period(3), "high")
               [] f = "startMinute3" -> at(period(3), "low")
               [] f = "stopHour3" -> at(period(3) + 1, "high")
               [] f = "stopMinute3" -> at(period(3) + 1, "low")
               [] f = "enablePeriod3" -> at(period(3) + 2, "switch")
        ELSE CASE f = "uwAC2BatVolt" -> at(95, IF l = 2 THEN "x10" ELSE "word")
               [] f = "batLowToUtiVolt" -> at(37, IF l = 2 THEN "x10" ELSE "word")
               [] f = "chargeConfig" -> at(2, "word")
               [] f = "utiChargeStart" -> at(5, IF l = 1 THEN "high" ELSE "word")
               [] f = "utiChargeEnd" -> at(6, IF l = 1 THEN "high" ELSE "word")
               [] f = "utiOutStart" -> at(3, IF l = 1 THEN "high" ELSE "word")
               [] f = "utiOutEnd" -> at(4, IF l = 1 THEN "high" ELSE "word")

\* the writes of calls that cover register a
Covering(calls, a) ==
    {k \in 1..Len(calls) :
        calls[k].kind = "write" /\ calls[k].addr <= a /\ a < calls[k].addr + calls[k].len}

\* the writes hand exactly one word to the register of field f, and the
\* field's part of that word is the value v
Carries(l, d, f, calls, v) ==
    LET p == Place(l, d, f)
        ks == Covering(calls, p.addr)
        k == CHOOSE k \in ks : TRUE
        w == calls[k].values[p.addr - calls[k].addr + 1]
    IN  /\ Cardinality(ks) = 1
        /\ CASE p.part = "word" -> w = v
             [] p.part = "x10" -> w.type = "number" /\ v.type = "number" /\ w.n = 10 * v.n
             [] p.part = "high" -> v.type = "number" /\ ToInt32(w) \div 256 = ToInt32(v)
             [] p.part = "low" -> v.type = "number" /\ ToInt32(w) % 256 = ToInt32(v)
             [] p.part = "switch" -> w = (IF v = Str("ON") THEN Whole(1) ELSE Whole(0))

\* C4: a merge changes only the fields its message names, and the words a set
\* command hands to the channel carry every field of the domain with the value
\* the cache has for it when the command arrives: a field no merge touched
\* keeps its place in the written words, also when it shares a byte-packed
\* word with a field that was changed
C4_UntouchedFieldsWritten ==
    [][/\ \A t \in Tasks, cmd \in SetCommands :
            (Free(t) /\ op'[t] = cmd)
            => \A f \in Fields(layout, DomainOf(cmd)) :
                    Carries(layout, DomainOf(cmd), f, plan'[t], Cache(DomainOf(cmd))[f])
       /\ mergesLeft' < mergesLeft
            => \E m \in Messages(layout) :
                 \A d \in Domains : \A f \in DOMAIN Cache(d) :
                    (f \notin DOMAIN m.control \/ d # m.subTopic)
                    => (f \in DOMAIN Cache(d)' /\ Cache(d)'[f] = Cache(d)[f])]_vars

\* C4 witness: after a refresh read 6:30 as the start of period 1 and a merge
\* set only startHour1 to 7, a set command is writing 7:30 to register 1080
C4_Witness ==
    /\ layout = 3
    /\ \E t \in Tasks :
        /\ op[t] = "setTouDischarging"
        /\ snap[t]["startHour1"] = Whole(7)
        /\ snap[t]["startMinute1"] = Whole(30)
        /\ plan[t][2].addr = 1080
        /\ plan[t][2].values[1] = Whole(7 * 256 + 30)

\* activation t is a set command whose write in flight is acknowledged in this step
WriteReturns(t) ==
    /\ op[t] \in SetCommands
    /\ phase[t] = "inflight"
    /\ pc'[t] = pc[t] + 1 \/ (phase'[t] = "idle" /\ settled'.status = "fulfilled")

\* C5: every write group of a set command puts on the device the words that
\* encode the cache as it was when the command began, whatever merges and
\* refreshes changed the cache since
C5_WritesSnapshot ==
    [][\A t \in Tasks :
        WriteReturns(t)
        => holding' = WriteWords(holding,
                Write(EncodeGroups(layout, DomainOf(op[t]), snap[t])[pc[t]]))]_vars

\* C5 witness: a set command has a later write group waiting or in flight
\* while the cache no longer encodes to the words of that group
C5_Witness ==
    \E t \in Tasks :
        /\ op[t] \in SetCommands
        /\ pc[t] >= 2
        /\ Cache(DomainOf(op[t])) # snap[t]
        /\ EncodeGroups(layout, DomainOf(op[t]), Cache(DomainOf(op[t])))[pc[t]]
             # EncodeGroups(layout, DomainOf(op[t]), snap[t])[pc[t]]

\* activation t is a refresh whose last read returns in this step
RefreshReturns(t) ==
    /\ op[t] \in GetCommands
    /\ phase[t] = "inflight"
    /\ pc[t] = 2
    /\ phase'[t] = "idle"
    /\ settled'.status = "fulfilled"

\* C10: when a refresh completes, the cache of its domain is the object decoded
\* from the two windows it read, field for field, and that object is what the
\* command returns; nothing of the cache it replaces survives
C10_RefreshOverwrites ==
    [][\A t \in Tasks :
        RefreshReturns(t)
        => \A d \in Domains :
              d = DomainOf(op[t])
              => LET device == Decode(layout, d, data[t][1],
                                      HoldingWindow(holding, plan[t][2]))
                 IN  /\ Cache(d)' = device
                     /\ settled'.value = device]_vars

\* C10 witness: a refresh has completed during which a merge changed the cache
\* of its domain, and the cache holds the decoded values, not the merged one
C10_Witness ==
    /\ settled.cmd \in GetCommands
    /\ settled.status = "fulfilled"
    /\ settled.merged
    /\ Cache(DomainOf(settled.cmd)) = settled.value
    /\ \A m \in Messages(layout) :
          m.subTopic = DomainOf(settled.cmd)
          => \E f \in DOMAIN m.control : settled.value[f] # m.control[f]

----------------------------------------------------------------------------
(* The round trip: one set command, then one get command of the same domain, *)
(* from every sampled cached state that passes validation                    *)

\* the name of a field of period i
Named(role, i) == role \o ToString(i)

SampleNumbers == {Whole(k) : k \in {0, 2, 7, 23, 30, 59, 90, 100}}

\* cached states of domain d: every combination of the sampled numbers in
\* layouts 1 and 2; in layout 3 the head fields and one period set, the rest
\* as initialized
SampleStates(l, d) ==
    IF l = 3
    THEN { [f \in Fields(3, d) |->
                IF f \in {"chargePower", "dischargePower"} THEN power
                ELSE IF f \in {"stopSOC", "dischargeStopSOC"} THEN soc
                ELSE IF f = "ac" THEN switch
                ELSE IF f = Named("startHour", i) THEN hour
                ELSE IF f = Named("startMinute", i) THEN minute
                ELSE IF f = Named("stopHour", i) THEN Whole(23)
                ELSE IF f = Named("stopMinute", i) THEN Whole(59)
                ELSE IF f = Named("enablePeriod", i) THEN switch
                ELSE Defaults(3, d)[f]] :
            power \in {Whole(0), Whole(100)}, soc \in {Whole(7), Whole(90)},
            switch \in {Str("ON"), Str("OFF")}, i \in 1..3,
            hour \in {Whole(0), Whole(7), Whole(23)},
            minute \in {Whole(0), Whole(30), Whole(59)} }
    ELSE [Fields(l, d) -> SampleNumbers]

\* the sampled states that pass validation
ValidSamples(l, d) == {v \in SampleStates(l, d) : Validate(l, d, v)}

InitRoundTrip ==
    /\ layout \in Layouts
    /\ \E d \in Domains :
        /\ touChargingValues \in
                IF d = "touCharging" THEN ValidSamples(layout, d)
                ELSE {Defaults(layout, "touCharging")}
        /\ touDischargingValues \in
                IF d = "touDischarging" THEN ValidSamples(layout, d)
                ELSE {Defaults(layout, "touDischarging")}
    /\ holding = InitialHolding(layout)
    /\ mutexLocked = FALSE
    /\ mutexQueue = << >>
    /\ op = [t \in Tasks |-> "idle"]
    /\ plan = [t \in Tasks |-> << >>]
    /\ pc = [t \in Tasks |-> 0]
    /\ phase = [t \in Tasks |-> "idle"]
    /\ data = [t \in Tasks |-> << >>]
    /\ settled = NoPromise
    /\ issued = [t \in Tasks |-> 0]
    /\ snap = [t \in Tasks |-> NoValue]
    /\ reqOrder = << >>
    /\ merged = [t \in Tasks |-> FALSE]
    /\ opsLeft = 2
    /\ mergesLeft = 0
    /\ report = NoReport
    /\ backup = NoBackup
    /\ timeline = [t \in Tasks |-> {}]
    /\ input = NoInput

\* the set command, sent first
RoundTripSet(cmd) ==
    /\ opsLeft = 2
    /\ \E t \in Tasks : SetTou(t, cmd)

\* the get command of the same domain, sent when the set command has succeeded
RoundTripGet(cmd) ==
    /\ opsLeft = 1
    /\ settled.cmd \in SetCommands
    /\ settled.status = "fulfilled"
    /\ DomainOf(settled.cmd) = DomainOf(cmd)
    /\ \E t \in Tasks : GetTou(t, cmd)

NextRoundTrip ==
    \/ \E cmd \in SetCommands : RoundTripSet(cmd)
    \/ \E cmd \in GetCommands : RoundTripGet(cmd)
    \/ \E t \in Tasks : Complete(t, TRUE)

SpecRoundTrip == InitRoundTrip /\ [][NextRoundTrip]_vars

----------------------------------------------------------------------------
(* Sensor readings: getSensorData on a device whose input registers hold    *)
(* sample measurements                                                     *)

\* input registers that hold the high word of a two-register field, except
\* those of the second PV string (52, 54), which stay 0 here so that the
\* sums epvToday and epvTotal are those of one string
HighAddrs == {3, 5, 36, 48, 50, 60, 62, 64, 66, 69, 73, 77, 85, 87}

\* sample devices: every two-register field holds the same pair of words,
\* register 0 a status code and register 40 an error code
SampleInputs ==
    {[a \in InputAddrs |->
        IF a = 0 THEN status ELSE IF a = 40 THEN error
        ELSE IF a \in HighAddrs THEN high
        ELSE IF a - 1 \in HighAddrs THEN low
        ELSE 0] :
     high \in {0, 1, 32767, 32768, 65535}, low \in {0, 1, 65535},
     status \in {0, 5, 12, 13, 65535}, error \in {0, 2, 4, 81, 82, 65535}}

InitSensor ==
    /\ layout \in Layouts
    /\ touChargingValues = Defaults(layout, "touCharging")
    /\ touDischargingValues = Defaults(layout, "touDischarging")
    /\ holding = InitialHolding(layout)
    /\ input \in SampleInputs
    /\ mutexLocked = FALSE
    /\ mutexQueue = << >>
    /\ op = [t \in Tasks |-> "idle"]
    /\ plan = [t \in Tasks |-> << >>]
    /\ pc = [t \in Tasks |-> 0]
    /\ phase = [t \in Tasks |-> "idle"]
    /\ data = [t \in Tasks |-> << >>]
    /\ settled = NoPromise
    /\ issued = [t \in Tasks |-> 0]
    /\ snap = [t \in Tasks |-> NoValue]
    /\ reqOrder = << >>
    /\ merged = [t \in Tasks |-> FALSE]
    /\ opsLeft = 1
    /\ mergesLeft = 0
    /\ report = NoReport
    /\ backup = NoBackup
    /\ timeline = [t \in Tasks |-> {}]

NextSensor ==
    \/ \E t \in Tasks : GetSensorData(t)
    \/ \E t \in Tasks : Complete(t, TRUE)

SpecSensor == InitSensor /\ [][NextSensor]_vars

----------------------------------------------------------------------------
(* Switch fields: control messages that set a switch of the extended-       *)
(* schedule layout, followed by set commands                                *)

\* the parsed control messages that assign one switch field: the two switch
\* values, strings that contain one of them, strings that contain neither,
\* and a number
SwitchMessages ==
    {[subTopic |-> d, control |-> (f :> v)] :
        d \in Domains, f \in SwitchFields,
        v \in {Str("ON"), Str("OFF"), Str("NONE"), Str("on"), Str(""), Whole(1)}}

InitSwitch == Start(ControlOps, ControlMerges) /\ layout = 3

NextSwitch ==
    \/ \E m \in SwitchMessages : UpdateControl(m.subTopic, m.control)
    \/ \E t \in Tasks, cmd \in SetCommands : SetTou(t, cmd)
    \/ \E t \in Tasks : Complete(t, TRUE)

SpecSwitch == InitSwitch /\ [][NextSwitch]_vars

\* C3 as stated: the get command that follows a successful set command of the
\* same domain leaves every field of the cache as the set command wrote it,
\* and returns that state
C3_RoundTrip ==
    [][\A t \in Tasks, d \in Domains :
        (RefreshReturns(t) /\ d = DomainOf(op[t]))
        => (Cache(d)' = Cache(d) /\ settled'.value = Cache(d))]_vars

----------------------------------------------------------------------------
(* Properties of the entry points, checked under SpecControl *)

\* C11 as stated: after any sequence of merges the keys of each domain's
\* cached state are exactly the declared fields of the domain
C11_KeysAreFields == \A d \in Domains : DOMAIN Cache(d) = Fields(layout, d)

\* this step is a call of updateControl with a message that is not a JSON object
MalformedCall ==
    /\ mergesLeft' < mergesLeft
    /\ \E subTopic \in SubTopics, msg \in ControlMessages(layout) :
            msg.kind # "object" /\ UpdateControlMessage(subTopic, msg)

C13_UnknownCommandRejected ==
    [][(opsLeft' < opsLeft /\ ~ \E t \in Tasks, cmd \in SetCommands : DispatchesSet(t, cmd))
       => /\ settled'.cmd \in UnknownNames
          /\ settled'.status = "rejected"
          /\ settled'.error = "Unknown command: " \o settled'.cmd
          /\ UNCHANGED <<touChargingValues, touDischargingValues, holding>>
          /\ UNCHANGED <<mutexLocked, mutexQueue, op, plan, pc, phase, issued, reqOrder>>]_vars

\* C13 witness: an unknown command has been refused while the write of a set
\* command is in flight
C13_Witness ==
    /\ settled.cmd \in UnknownNames
    /\ settled.status = "rejected"
    /\ \E t \in Tasks : phase[t] = "inflight" /\ op[t] \in SetCommands

----------------------------------------------------------------------------
(* Properties of the write groups of a set command, checked under Spec *)

\* the words of the write group are what the device holds at its addresses
OnDevice(group) ==
    \A i \in 1..Len(group.values) :
        holding[group.addr + i - 1] = StoredWord(group.values[i])

\* C14: when a write group after the first fails, the set command ends with
\* that failure, the failing step changes no register (the groups written
\* before stay as written, nothing is written back), the command queues no
\* further write, and the caches are left as they were
C14_PartialFailure ==
    [][\A t \in Tasks :
        (MidFlush(t) /\ Complete(t, FALSE))
        => /\ settled'.cmd = op[t]
           /\ settled'.status = "rejected"
           /\ settled'.error = "transport"
           /\ holding' = holding
           /\ op'[t] = "idle" /\ phase'[t] = "idle" /\ plan'[t] = << >>
           /\ \A i \in 1..Len(mutexQueue') : mutexQueue'[i] # t
           /\ UNCHANGED <<touChargingValues, touDischargingValues>>]_vars

\* C14 witness: a set command has failed, and the device holds the words of
\* its first write group but not those of its last
C14_Witness ==
    /\ settled.cmd \in SetCommands
    /\ settled.status = "rejected"
    /\ settled.error = "transport"
    /\ LET groups == EncodeGroups(layout, DomainOf(settled.cmd), Cache(DomainOf(settled.cmd)))
       IN  OnDevice(groups[1]) /\ ~OnDevice(groups[Len(groups)])

\* the start addresses of the calls, in the order of the calls
Addresses(calls) == [i \in 1..Len(calls) |-> calls[i].addr]

\* the order in which each set command lists its write groups
WriteOrder(l, d) ==
    IF l = 3 THEN (IF d = "touCharging" THEN << 1090, 1100 >> ELSE << 1070, 1080 >>)
    ELSE (IF d = "touCharging" THEN << 95, 2, 5 >> ELSE << 37, 3 >>)

\* C15 as stated: the write groups of a set command are issued in ascending
\* order of their start addresses
C15_AscendingOrder ==
    \A t \in Tasks : op[t] \in SetCommands =>
        \A i, j \in 1..Len(plan[t]) : i < j => plan[t][i].addr < plan[t][j].addr

\* C15 amended: the write groups of a set command are issued one at a time,
\* each only after the previous one was acknowledged, in the order the command
\* lists them: 1090, 1100 and 1070, 1080 in the extended-schedule layout
\* (ascending), but 95, 2, 5 for touCharging and 37, 3 for touDischarging in
\* the packed-hour and 0.1-unit layouts, which is not ascending
C15_ListedOrder ==
    [][\A t \in Tasks :
        /\ (op[t] = "idle" /\ op'[t] \in SetCommands)
            => /\ Addresses(plan'[t]) = WriteOrder(layout, DomainOf(op'[t]))
               /\ pc'[t] = 1
        /\ (op[t] \in SetCommands /\ op'[t] = op[t])
            => /\ plan'[t] = plan[t]
               /\ pc'[t] # pc[t]
                    => /\ pc'[t] = pc[t] + 1
                       /\ phase[t] = "inflight"
                       /\ \A i \in 1..plan[t][pc[t]].len :
                            holding'[plan[t][pc[t]].addr + i - 1]
                                = StoredWord(plan[t][pc[t]].values[i])]_vars

\* C15 witness: in the packed-hour or 0.1-unit layout setTouCharging has had
\* its writes to 95 and to 2 acknowledged and its write to 5 is in flight
C15_Witness ==
    /\ layout \in {1, 2}
    /\ \E t \in Tasks :
        /\ op[t] = "setTouCharging"
        /\ pc[t] = 3
        /\ phase[t] = "inflight"
        /\ plan[t][3].addr = 5

----------------------------------------------------------------------------
(* The get/set cycle: one get command, then the set command of the same     *)
(* domain with no merge in between, on a device whose registers hold what a *)
(* set command wrote                                                        *)

RECURSIVE WriteAll(_, _)
\* the registers after the calls have been made in order
WriteAll(h, calls) ==
    IF calls = << >> THEN h ELSE WriteAll(WriteWords(h, Head(calls)), Tail(calls))

\* device contents a set command leaves behind: the words of a sampled state
\* that passes validation, in the registers of its domain
WrittenDevices(l) ==
    UNION {{WriteAll(InitialHolding(l), SetPlan(l, d, v)) : v \in ValidSamples(l, d)} :
                d \in Domains}

InitCycle ==
    /\ layout \in Layouts
    /\ touChargingValues = Defaults(layout, "touCharging")
    /\ touDischargingValues = Defaults(layout, "touDischarging")
    /\ holding \in WrittenDevices(layout)
    /\ mutexLocked = FALSE
    /\ mutexQueue = << >>
    /\ op = [t \in Tasks |-> "idle"]
    /\ plan = [t \in Tasks |-> << >>]
    /\ pc = [t \in Tasks |-> 0]
    /\ phase = [t \in Tasks |-> "idle"]
    /\ data = [t \in Tasks |-> << >>]
    /\ settled = NoPromise
    /\ issued = [t \in Tasks |-> 0]
    /\ snap = [t \in Tasks |-> NoValue]
    /\ reqOrder = << >>
    /\ merged = [t \in Tasks |-> FALSE]
    /\ opsLeft = 2
    /\ mergesLeft = 0
    /\ report = NoReport
    /\ backup = NoBackup
    /\ timeline = [t \in Tasks |-> {}]
    /\ input = NoInput

\* the get command, sent first
CycleGet(cmd) ==
    /\ opsLeft = 2
    /\ \E t \in Tasks : GetTou(t, cmd)

\* the set command of the same domain, sent when the get command has returned
CycleSet(cmd) ==
    /\ opsLeft = 1
    /\ settled.cmd \in GetCommands
    /\ settled.status = "fulfilled"
    /\ DomainOf(settled.cmd) = DomainOf(cmd)
    /\ \E t \in Tasks : SetTou(t, cmd)

NextCycle ==
    \/ \E cmd \in GetCommands : CycleGet(cmd)
    \/ \E cmd \in SetCommands : CycleSet(cmd)
    \/ \E t \in Tasks : Complete(t, TRUE)

SpecCycle == InitCycle /\ [][NextCycle]_vars

\* C16 as stated: the set command that follows a get command of the same
\* domain writes back the words that were read: it is not refused, and no
\* step of the cycle changes a register of the device
C16_CycleKeepsDevice ==
    [][/\ holding' = holding
       /\ settled'.cmd \in SetCommands => settled'.status = "fulfilled"]_vars

----------------------------------------------------------------------------
(* The time boundaries of the extended-schedule layout: one set command or  *)
(* one get command, for every hour and minute and for sampled words         *)

\* the six boundaries of a domain: the fields of each and the place of its
\* word in the nine-word group
Boundaries ==
    << [hour |-> "startHour1", minute |-> "startMinute1", offset |-> 0],
       [hour |-> "stopHour1", minute |-> "stopMinute1", offset |-> 1],
       [hour |-> "startHour2", minute |-> "startMinute2", offset |-> 3],
       [hour |-> "stopHour2", minute |-> "stopMinute2", offset |-> 4],
       [hour |-> "startHour3", minute |-> "startMinute3", offset |-> 6],
       [hour |-> "stopHour3", minute |-> "stopMinute3", offset |-> 7] >>

\* the first register of the nine-word group of a domain
PeriodBase(d) == IF d = "touCharging" THEN 1100 ELSE 1080

\* register words: every hour byte from 0 to 23 and some past it, with minute
\* bytes inside and outside 0..59
BoundaryWords ==
    {h * 256 + m : h \in (0..23) \cup {24, 127, 128, 255},
                   m \in {0, 1, 30, 59, 60, 127, 128, 255}}

\* the hours and minutes a boundary is set to: every hour with every minute
\* for the first boundary of touCharging, the ends and the middle of the
\* ranges for the other eleven, which the same code encodes
HourMinutes(d, b) ==
    IF d = "touCharging" /\ b = 1 THEN (0..23) \X (0..59)
    ELSE {0, 6, 23} \X {0, 30, 59}

\* a cache with one boundary of one domain set to an hour and minute on a
\* device as found, or the cache as constructed on a device with any sampled
\* word in the register of one boundary
BoundaryStarts ==
    UNION { UNION {
        { [charging |-> IF d = "touCharging"
                        THEN [Defaults(3, d) EXCEPT ![Boundaries[b].hour] = Whole(hm[1]),
                                                    ![Boundaries[b].minute] = Whole(hm[2])]
                        ELSE Defaults(3, "touCharging"),
           discharging |-> IF d = "touDischarging"
                        THEN [Defaults(3, d) EXCEPT ![Boundaries[b].hour] = Whole(hm[1]),
                                                    ![Boundaries[b].minute] = Whole(hm[2])]
                        ELSE Defaults(3, "touDischarging"),
           device |-> InitialHolding(3)] : hm \in HourMinutes(d, b) }
        \cup
        { [charging |-> Defaults(3, "touCharging"),
           discharging |-> Defaults(3, "touDischarging"),
           device |-> [InitialHolding(3) EXCEPT ![PeriodBase(d) + Boundaries[b].offset] = w]] :
                w \in BoundaryWords }
        : b \in 1..Len(Boundaries) } : d \in Domains }

InitBoundary ==
    /\ layout = 3
    /\ \E start \in BoundaryStarts :
        /\ touChargingValues = start.charging
        /\ touDischargingValues = start.discharging
        /\ holding = start.device
    /\ mutexLocked = FALSE
    /\ mutexQueue = << >>
    /\ op = [t \in Tasks |-> "idle"]
    /\ plan = [t \in Tasks |-> << >>]
    /\ pc = [t \in Tasks |-> 0]
    /\ phase = [t \in Tasks |-> "idle"]
    /\ data = [t \in Tasks |-> << >>]
    /\ settled = NoPromise
    /\ issued = [t \in Tasks |-> 0]
    /\ snap = [t \in Tasks |-> NoValue]
    /\ reqOrder = << >>
    /\ merged = [t \in Tasks |-> FALSE]
    /\ opsLeft = 1
    /\ mergesLeft = 0
    /\ report = NoReport
    /\ backup = NoBackup
    /\ timeline = [t \in Tasks |-> {}]
    /\ input = NoInput

NextBoundary ==
    \/ \E t \in Tasks, cmd \in SetCommands : SetTou(t, cmd)
    \/ \E t \in Tasks, cmd \in GetCommands : GetTou(t, cmd)
    \/ \E t \in Tasks : Complete(t, TRUE)

SpecBoundary == InitBoundary /\ [][NextBoundary]_vars

\* C17: in the extended-schedule layout the word a set command writes for a
\* boundary is hour * 256 + minute, for every hour in 0..23 and minute in
\* 0..59, in each of the six boundaries of both domains, and a get command
\* decodes any word w to hour = w div 256 and minute = w mod 256
C17_BoundaryWord ==
    [][\A t \in Tasks, d \in Domains, b \in 1..Len(Boundaries) :
        LET hour == Boundaries[b].hour
            minute == Boundaries[b].minute
            register == PeriodBase(d) + Boundaries[b].offset
        IN  /\ (op[t] = "idle" /\ op'[t] \in SetCommands /\ d = DomainOf(op'[t]))
                => plan'[t][2].values[Boundaries[b].offset + 1]
                     = Whole((Cache(d)[hour].n \div 10) * 256 + Cache(d)[minute].n \div 10)
            /\ (WriteReturns(t) /\ pc[t] = 2 /\ d = DomainOf(op[t]))
                => holding'[register]
                     = (snap[t][hour].n \div 10) * 256 + snap[t][minute].n \div 10
            /\ (RefreshReturns(t) /\ d = DomainOf(op[t]))
                => /\ Cache(d)'[hour] = Whole(holding[register] \div 256)
                   /\ Cache(d)'[minute] = Whole(holding[register] % 256)]_vars

\* C17 witness: hour 6, minute 30 has been written as 0x061E (1566), and
\* elsewhere 0x061E has been decoded to hour 6, minute 30
C17_Witness ==
    \/ /\ settled.cmd = "setTouCharging" /\ settled.status = "fulfilled"
       /\ touChargingValues["startHour1"] = Whole(6)
       /\ touChargingValues["startMinute1"] = Whole(30)
       /\ holding[1100] = 1566
    \/ /\ settled.cmd = "getTouDischarging" /\ settled.status = "fulfilled"
       /\ holding[1087] = 1566
       /\ settled.value["stopHour3"] = Whole(6)
       /\ settled.value["stopMinute3"] = Whole(30)

----------------------------------------------------------------------------
(* Sensor fields decoded from two input registers *)

\* the fields of the object whose value is one pair of registers, with the
\* address of the high word
PairFields ==
    [ppv |-> 3, ppv1 |-> 3, ppv2 |-> 5, pImport |-> 36, eImportToday |-> 48,
     eImportTotal |-> 50, eDischargeToday |-> 60, eChargeToday |-> 60,
     eDischargeTotal |-> 62, eChargeTotal |-> 62, eLoadToday |-> 64, eLoadTotal |-> 66,
     pExport |-> 69, pLoad |-> 69, pDischarge |-> 73, pCharge |-> 77,
     eExportToday |-> 85, eExportTotal |-> 87]

\* getSensorData has returned its object
SensorReturned == settled.cmd = "getSensorData" /\ settled.status = "fulfilled"

\* C18: in every layout, every field that getSensorData decodes from two input
\* registers is, times 10, the number high * 65536 + low of the word at the
\* field's address and the word at the next address, whatever the two words are
C18_PairDecoded ==
    SensorReturned =>
        \A f \in DOMAIN PairFields :
            /\ settled.value[f].n >= 0
            /\ settled.value[f].n \div 65536 = input[PairFields[f]]
            /\ settled.value[f].n % 65536 = input[PairFields[f] + 1]

----------------------------------------------------------------------------
(* Status and error codes *)

\* C19: for every status code in register 0 and every error code in register
\* 40, getSensorData returns the table's text when the table has the code
\* (0 is 'Standby', 12 the last status; 2 and 81 the first and last errors)
\* and the code itself, as the number read, when it has not (13 and 65535 are
\* no status, 0 and 4 and 82 no error); the call is fulfilled for every code
C19_TableOrCode ==
    settled.cmd = "getSensorData" =>
        /\ settled.status = "fulfilled"
        /\ settled.value.inverterStatus =
                IF input[0] \in DOMAIN StatusMap
                THEN Str(StatusMap[input[0]]) ELSE Whole(input[0])
        /\ settled.value.inverterError =
                IF input[40] \in DOMAIN ErrorMap
                THEN Str(ErrorMap[input[40]]) ELSE Whole(input[40])
        /\ input[0] = 0 => settled.value.inverterStatus = Str("Standby")
        /\ input[0] = 12 => settled.value.inverterStatus = Str("PV charge and Discharge")
        /\ input[0] \in {13, 65535} => settled.value.inverterStatus = Whole(input[0])
        /\ input[40] = 2 => settled.value.inverterError = Str("Over Temperature")
        /\ input[40] = 81 => settled.value.inverterError = Str("host loss")
        /\ input[40] \in {0, 4, 82, 65535} => settled.value.inverterError = Whole(input[40])

\* the chunked layout has returned a status code that is in no table next to an
\* error code that is in the table
C19_Witness ==
    /\ SensorReturned
    /\ layout = 2
    /\ input[0] = 13 /\ settled.value.inverterStatus = Whole(13)
    /\ input[40] = 81 /\ settled.value.inverterError = Str("host loss")

----------------------------------------------------------------------------
(* Validation of the switch fields *)

\* C20: a set command that arrives while a switch field of its domain (ac,
\* enablePeriod1, enablePeriod2, enablePeriod3) holds a string other than "ON"
\* and "OFF" fails with a validation error and makes or queues no write
C20_SwitchExact ==
    [][\A t \in Tasks, cmd \in SetCommands :
        (/\ DispatchesSet(t, cmd)
         /\ \E f \in SwitchFields \cap Fields(layout, DomainOf(cmd)) :
                /\ Cache(DomainOf(cmd))[f].type = "string"
                /\ Cache(DomainOf(cmd))[f].s \notin {"ON", "OFF"})
        => /\ settled' = Promise(cmd, "rejected", "Error validating " \o cmd, NoValue, FALSE)
           /\ UNCHANGED <<op, plan, pc, phase, issued, reqOrder, holding>>]_vars

----------------------------------------------------------------------------
(* The two domains are kept apart *)

\* C21: the cache of a domain changes only in a merge addressed to that
\* domain or when a refresh of that domain stores what it read: a merge, a
\* refresh or a flush addressed to the other domain, and a merge addressed to
\* any other topic, leave every field of it as it was, also the fields whose
\* names the two domains share
C21_OtherDomainKept ==
    [][\A d \in Domains :
        (IF d = "touCharging" THEN touChargingValues' # touChargingValues
         ELSE touDischargingValues' # touDischargingValues)
        => \/ /\ mergesLeft' < mergesLeft
              /\ \E m \in Messages(layout) :
                    m.subTopic = d /\ UpdateControl(m.subTopic, m.control)
           \/ /\ mergesLeft' = mergesLeft
              /\ \E t \in Tasks : RefreshReturns(t) /\ DomainOf(op[t]) = d]_vars

\* C21 witness: in the extended-schedule layout a message has set startHour1,
\* a field both domains have, in the discharging cache, and a refresh of the
\* discharging domain has been stored, while the charging cache still has its
\* initial startHour1
C21_Witness ==
    /\ layout = 3
    /\ report.outcome = "returned"
    /\ touDischargingValues["startHour1"] = Whole(7)
    /\ touChargingValues = Defaults(3, "touCharging")
    /\ settled.cmd = "getTouDischarging"
    /\ settled.status = "fulfilled"

\* C22: in every layout the registers of the fields of touCharging and those of
\* the fields of touDischarging are disjoint, every write group of a set
\* command covers only registers of fields of its own domain, and when the
\* group is acknowledged no register outside it has changed
C22_WritesOwnRegisters ==
    [][\A t \in Tasks, d \in Domains :
        (WriteReturns(t) /\ d = DomainOf(op[t]))
        => LET range == plan[t][pc[t]].addr .. (plan[t][pc[t]].addr + plan[t][pc[t]].len - 1)
               own == {Place(layout, d, f).addr : f \in Fields(layout, d)}
               other == UNION {{Place(layout, e, f).addr : f \in Fields(layout, e)} :
                               e \in Domains \ {d}}
           IN  /\ own \cap other = {}
               /\ range \subseteq own
               /\ range \cap other = {}
               /\ \A a \in HoldingAddrs(layout) \ range : holding'[a] = holding[a]]_vars

\* C22 witness: in the packed-hour layout setTouDischarging has written its
\* registers 3, 4 and 37, and the registers of touCharging hold what they held
C22_Witness ==
    /\ layout = 1
    /\ settled.cmd = "setTouDischarging"
    /\ settled.status = "fulfilled"
    /\ holding[3] # InitialHolding(1)[3]
    /\ \A a \in {2, 5, 6, 95} : holding[a] = InitialHolding(1)[a]

----------------------------------------------------------------------------
(* What updateControl returns *)

\* C23: every updateControl call returns, whatever the message was (one that
\* names a few fields, one that names none of the domain, one that is no
\* object, one that cannot be parsed), an array in which each domain appears
\* with values equal to its cache as it is when the call returns, every
\* declared field of the domain among them
C23_ReturnsFullState ==
    [][mergesLeft' < mergesLeft
        => /\ report'.outcome = "returned"
           /\ \A d \in Domains :
                \E i \in 1..Len(report'.returned) :
                    /\ report'.returned[i].subTopic = d
                    /\ report'.returned[i].values = Cache(d)'
                    /\ Fields(layout, d) \subseteq DOMAIN report'.returned[i].values]_vars

\* C23 witness: in the extended-schedule layout a message that names stopSOC
\* alone has been merged, and the call returned all fields of touCharging, the
\* new stopSOC and the untouched chargePower among them
C23_Witness ==
    /\ layout = 3
    /\ report.outcome = "returned"
    /\ ~report.logged
    /\ report.returned[1].subTopic = "touCharging"
    /\ report.returned[1].values = touChargingValues
    /\ report.returned[1].values["stopSOC"] = Whole(80)
    /\ report.returned[1].values["chargePower"] = Whole(100)

----------------------------------------------------------------------------
(* What the commands return *)

\* C24: a set command that is fulfilled returns no payload, and it is
\* fulfilled in the step in which its last write group is acknowledged, all
\* groups of its snapshot being counted; a get command that is fulfilled
\* returns the name of its domain with values equal to that domain's cache as
\* the refresh has just stored it
C24_CommandResults ==
    [][\A t \in Tasks, d \in Domains :
        (/\ phase[t] = "inflight"
         /\ phase'[t] = "idle"
         /\ op[t] \in SetCommands \cup GetCommands
         /\ d = DomainOf(op[t])
         /\ settled'.status = "fulfilled")
        => /\ settled'.cmd = op[t]
           /\ op[t] \in SetCommands
                => /\ settled'.value = NoValue
                   /\ settled'.subTopic = ""
                   /\ pc[t] = Len(EncodeGroups(layout, d, snap[t]))
                   /\ plan[t][pc[t]].kind = "write"
           /\ op[t] \in GetCommands
                => /\ settled'.subTopic = d
                   /\ settled'.value = Cache(d)'
                   /\ Fields(layout, d) \subseteq DOMAIN settled'.value]_vars

\* C24 witness: setTouCharging of the extended-schedule layout has returned
\* with no payload and both of its write groups are on the device
C24_Witness ==
    /\ layout = 3
    /\ settled.cmd = "setTouCharging"
    /\ settled.status = "fulfilled"
    /\ settled.value = NoValue
    /\ holding[1090] = StoredWord(touChargingValues["chargePower"])
    /\ holding[1100] = StoredWord(PackHourMinute(touChargingValues["startHour1"],
                                                 touChargingValues["startMinute1"]))
    /\ holding[1100] # InitialHolding(3)[1100]

\* C25: getTime makes one channel call, the read of the six holding registers
\* 45..50, and no other; from its arrival to its return it writes no register
\* and changes no cache, and when the read succeeds it returns, under the topic
\* "time", the six words as year, month, day, hour, minute, second in the
\* order of their addresses
C25_GetTimeReadsClock ==
    [][\A t \in Tasks :
        /\ (op[t] # "getTime" /\ op'[t] = "getTime")
            => /\ plan'[t] = << Call("readHolding", 45, 6, << >>) >>
               /\ pc'[t] = 1
               /\ UNCHANGED <<touChargingValues, touDischargingValues, holding>>
        /\ op[t] = "getTime"
            => /\ plan[t] = << Call("readHolding", 45, 6, << >>) >>
               /\ pc[t] = 1
               /\ issued[t] <= 1 /\ issued'[t] <= 1
               /\ (phase[t] = "inflight" /\ phase'[t] # "inflight")
                    => /\ UNCHANGED <<touChargingValues, touDischargingValues, holding>>
                       /\ phase'[t] = "idle"
                       /\ settled'.cmd = "getTime"
                       /\ settled'.status = "fulfilled"
                            => /\ settled'.subTopic = "time"
                               /\ settled'.value =
                                    [year |-> Whole(holding[45]), month |-> Whole(holding[46]),
                                     day |-> Whole(holding[47]), hour |-> Whole(holding[48]),
                                     minute |-> Whole(holding[49]),
                                     second |-> Whole(holding[50])]]_vars

\* C25 witness: getTime has returned the clock of the device, year first
C25_Witness ==
    /\ settled.cmd = "getTime"
    /\ settled.status = "fulfilled"
    /\ settled.value["year"] = Whole(holding[45])
    /\ settled.value["second"] = Whole(holding[50])
    /\ holding[45] # holding[50]

----------------------------------------------------------------------------
(* The failure of a set command whose cached state is invalid *)

\* C26 as stated: the failure of a set command whose cached state violates
\* validation lists every violated field
C26_AllViolationsCarried ==
    [][\A t \in Tasks, cmd \in SetCommands :
        (DispatchesSet(t, cmd) /\ ~Validate(layout, DomainOf(cmd), Cache(DomainOf(cmd))))
        => Violations(layout, DomainOf(cmd), Cache(DomainOf(cmd))) \subseteq settled'.fields]_vars

\* C26 as the code has it: the failure of a set command whose cached state
\* violates validation is the string "Error validating " followed by the name
\* of the command; it is the same string whichever and however many fields
\* are violated and lists none of them; no write is made
C26_BareString ==
    [][\A t \in Tasks, cmd \in SetCommands :
        (DispatchesSet(t, cmd) /\ Violations(layout, DomainOf(cmd), Cache(DomainOf(cmd))) # {})
        => /\ settled'.cmd = cmd
           /\ settled'.status = "rejected"
           /\ settled'.error = "Error validating " \o cmd
           /\ settled'.fields = {}
           /\ UNCHANGED <<op, plan, pc, phase, issued, holding>>]_vars

\* C26 witness: a set command was rejected while two fields of its domain were
\* above their maximum
C26_Witness ==
    /\ settled.cmd \in SetCommands
    /\ settled.status = "rejected"
    /\ settled.error = "Error validating " \o settled.cmd
    /\ Cardinality(Violations(layout, DomainOf(settled.cmd), Cache(DomainOf(settled.cmd)))) >= 2

----------------------------------------------------------------------------
(* The backup utility *)

\* Bound: the sample devices the backup utility is run against
BackupDevices == 8

\* the reads of runBackup in the order it awaits them, each with the range
\* its section header announces: one read per register kind in
\* backupGrowattSPF5000.ts ("single"), seven and four reads in the other
\* utility ("chunked")
BackupReads(variant) ==
    LET Read(kind, address, length, first, last) ==
            [registers |-> kind, addr |-> address, len |-> length, from |-> first, to |-> last]
    IN  IF variant = "single"
        THEN << Read("holding", 0, 162, 0, 162), Read("input", 0, 90, 0, 90) >>
        ELSE << Read("holding", 0, 26, 0, 25), Read("holding", 26, 25, 26, 50),
                Read("holding", 51, 25, 51, 75), Read("holding", 76, 25, 76, 100),
                Read("holding", 101, 25, 101, 125), Read("holding", 126, 25, 126, 150),
                Read("holding", 151, 12, 151, 162),
                Read("input", 0, 26, 0, 25), Read("input", 26, 25, 26, 50),
                Read("input", 51, 25, 51, 75), Read("input", 76, 14, 76, 90) >>

\* backupText: per read the header line and then, for (let i in data), one
\* line `${i} ${data[i]}` with the index i in the window as its label; the
\* single-read utility begins with a title line, both end with "End"
BackupText(variant, windows) ==
    LET reads == BackupReads(variant)
        Header(k) == [kind |-> "header", registers |-> reads[k].registers,
                      from |-> reads[k].from, to |-> reads[k].to]
        Lines(k) == [i \in 1..Len(windows[k]) |->
                        [kind |-> "value", label |-> i - 1, value |-> windows[k][i]]]
        RECURSIVE Sections(_)
        Sections(k) == IF k > Len(reads) THEN << >>
                       ELSE <<Header(k)>> \o Lines(k) \o Sections(k + 1)
    IN  (IF variant = "single" THEN <<[kind |-> "title"]>> ELSE << >>)
        \o Sections(1) \o <<[kind |-> "end"]>>

\* runBackup is connected to one of the sample devices and awaits its first read
InitBackup ==
    /\ layout = 3
    /\ touChargingValues = Defaults(layout, "touCharging")
    /\ touDischargingValues = Defaults(layout, "touDischarging")
    /\ mutexLocked = FALSE
    /\ mutexQueue = << >>
    /\ op = [t \in Tasks |-> "idle"]
    /\ plan = [t \in Tasks |-> << >>]
    /\ pc = [t \in Tasks |-> 0]
    /\ phase = [t \in Tasks |-> "idle"]
    /\ data = [t \in Tasks |-> << >>]
    /\ settled = NoPromise
    /\ issued = [t \in Tasks |-> 0]
    /\ snap = [t \in Tasks |-> NoValue]
    /\ reqOrder = << >>
    /\ merged = [t \in Tasks |-> FALSE]
    /\ opsLeft = 0
    /\ mergesLeft = 0
    /\ report = NoReport
    /\ timeline = [t \in Tasks |-> {}]
    /\ \E s \in 1..BackupDevices, variant \in {"single", "chunked"} :
        /\ holding = [a \in 0..162 |-> (a * 397 * s + s) % 65536]
        /\ input = [a \in 0..90 |-> (a * 211 * s + 2 * s + 1) % 65536]
        /\ backup = [NoBackup EXCEPT !.variant = variant, !.pc = 1]

\* the read runBackup awaits returns: a failed read ends the run with nothing
\* written; after the last read the text is put together and written to the file
RunBackup(ok) ==
    /\ backup.pc \in 1..Len(BackupReads(backup.variant))
    /\ LET call == BackupReads(backup.variant)[backup.pc]
           window == IF call.registers = "holding" THEN HoldingWindow(holding, call)
                     ELSE InputWindow(input, call)
           windows == Append(backup.windows, window)
       IN  backup' =
             IF ~ok THEN [backup EXCEPT !.pc = -1, !.windows = << >>]
             ELSE IF backup.pc < Len(BackupReads(backup.variant))
             THEN [backup EXCEPT !.pc = backup.pc + 1, !.windows = windows]
             ELSE [backup EXCEPT !.pc = 0, !.windows = windows,
                                 !.backupText = BackupText(backup.variant, windows)]
    /\ UNCHANGED <<layout, touChargingValues, touDischargingValues, holding, input,
                   mutexLocked, mutexQueue, op, plan, pc, phase, data, settled, issued,
                   snap, reqOrder, merged, opsLeft, mergesLeft, report, timeline>>

NextBackup == \E ok \in BOOLEAN : RunBackup(ok)

SpecBackup == InitBackup /\ [][NextBackup]_vars

\* C27: the text the backup utility writes lists every holding register 0
\* through 162 and every input register 0 through 90, the ranges its headers
\* announce, exactly once, in ascending address order, each line labelled
\* with the register's address and carrying the register's word; consecutive
\* read windows of one register kind are contiguous and do not overlap
C27_BackupComplete ==
    backup.backupText # << >> =>
        LET text == backup.backupText
            reads == BackupReads(backup.variant)
            HeaderOf(i) == CHOOSE h \in 1..i :
                              /\ text[h].kind = "header"
                              /\ \A j \in (h + 1)..i : text[j].kind # "header"
            Listed(kind) == {i \in 1..Len(text) :
                                text[i].kind = "value" /\ text[HeaderOf(i)].registers = kind}
            Announced(kind) == UNION {text[h].from..text[h].to :
                                        h \in {i \in 1..Len(text) :
                                                 text[i].kind = "header"
                                                 /\ text[i].registers = kind}}
            Complete_(kind, registers, addrs) ==
                /\ Announced(kind) = addrs
                /\ \A a \in addrs :
                     \E i \in Listed(kind) :
                        /\ text[i].label = a
                        /\ text[i].value = registers[a]
                        /\ \A j \in Listed(kind) : text[j].label = a => j = i
                /\ \A i, j \in Listed(kind) : i < j => text[i].label < text[j].label
                /\ \A i \in Listed(kind) : text[i].label \in addrs
        IN  /\ Complete_("holding", holding, 0..162)
            /\ Complete_("input", input, 0..90)
            /\ \A k \in 1..(Len(reads) - 1) :
                  reads[k + 1].registers = reads[k].registers
                  => reads[k + 1].addr = reads[k].addr + reads[k].len

----------------------------------------------------------------------------
(* A refresh that runs beside flushes of its domain *)

\* three commands on the charging domain and a merge
InitTorn == Start(MaxOps, StoreMerges)

\* set commands and refreshes of the charging domain, and merges that change
\* a field of the domain's first window or a field of its second
NextTorn ==
    LET TornMessages ==
            IF layout = 3 THEN {("stopSOC" :> Whole(60)), ("startHour1" :> Whole(3))}
            ELSE {("utiChargeEnd" :> Whole(7)), ("uwAC2BatVolt" :> Whole(50))}
    IN  \/ \E t \in Tasks : SetTou(t, "setTouCharging")
        \/ \E t \in Tasks : GetTou(t, "getTouCharging")
        \/ \E t \in Tasks : Complete(t, TRUE)
        \/ \E control \in TornMessages : UpdateControl("touCharging", control)

SpecTorn == InitTorn /\ [][NextTorn]_vars

\* C28: the state a refresh stores is the decoding of the device's registers
\* as they were at one single point in time between its first read and its
\* second, whatever write groups were applied in between
C28_RefreshNotTorn ==
    [][\A t \in Tasks, d \in Domains :
        (/\ phase[t] = "inflight"
         /\ AssignedAt(op[t], pc[t]) = d
         /\ phase'[t] # "inflight" \/ pc'[t] # pc[t]
         /\ settled'.status = "fulfilled" \/ op'[t] = op[t])
        => Cache(d)' \in timeline[t]]_vars

----------------------------------------------------------------------------
(* Two set commands of one domain *)

\* the next channel call of set command t is made before that of u: t has
\* written more groups, or as many and its call is in flight or waits in front
AheadOf(t, u) ==
    \/ pc[t] > pc[u]
    \/ /\ pc[t] = pc[u]
       /\ phase[t] = "inflight" \/ Before(t, u, mutexQueue)

\* C29: of two set commands of one domain the one submitted first stays ahead
\* of the other write group by write group and completes first; when a set
\* command completes with success and no other set command of its domain is
\* still running, every register of the domain holds the encoding of that
\* command's snapshot, so nothing an earlier command wrote is left
C29_LaterSnapshotWins ==
    [][/\ \A t, u \in Tasks :
            (t # u /\ op[t] \in SetCommands /\ op[u] = "idle" /\ op'[u] = op[t])
            => AheadOf(t, u)'
       /\ \A t, u \in Tasks :
            (t # u /\ op[t] \in SetCommands /\ op[u] = op[t] /\ AheadOf(t, u)
             /\ op'[t] = op[t] /\ op'[u] = op[u])
            => AheadOf(t, u)'
       /\ \A t \in Tasks :
            (WriteReturns(t) /\ phase'[t] = "idle")
            => /\ \A u \in Tasks : (u # t /\ op[u] = op[t]) => AheadOf(t, u)
               /\ (\A u \in Tasks : u # t => op[u] # op[t])
                  => LET groups == EncodeGroups(layout, DomainOf(op[t]), snap[t])
                     IN  \A i \in 1..Len(groups) :
                            \A j \in 1..Len(groups[i].values) :
                                holding'[groups[i].addr + j - 1]
                                    = StoredWord(groups[i].values[j])
      ]_vars

\* C29 witness: the first of two overlapping charging commands has completed
\* with the defaults as its snapshot, the second, begun after a merge, is at
\* its last write group, and the groups before the last hold the second's
\* encoding while the last still holds the first's
C29_Witness ==
    \E u \in Tasks :
        /\ op[u] = "setTouCharging"
        /\ settled.cmd = "setTouCharging"
        /\ settled.status = "fulfilled"
        /\ \A t \in Tasks : t # u => op[t] = "idle"
        /\ snap[u] # Defaults(layout, "touCharging")
        /\ pc[u] = Len(plan[u])
        /\ LET mine == EncodeGroups(layout, "touCharging", snap[u])
               first == EncodeGroups(layout, "touCharging", Defaults(layout, "touCharging"))
           IN  /\ \A i \in 1..(Len(mine) - 1) : OnDevice(mine[i])
               /\ OnDevice(first[Len(first)])
               /\ mine[Len(mine)] # first[Len(first)]

----------------------------------------------------------------------------
(* A refresh whose read fails *)

\* C30: the step in which a read of a refresh fails changes neither cache and
\* rejects the command; the step in which its first read returns changes
\* neither cache either: the cache of the domain is assigned only in the step
\* in which the second read returns
C30_FailedRefreshKeepsCache ==
    [][\A t \in Tasks :
        (/\ op[t] \in GetCommands
         /\ phase[t] = "inflight"
         /\ phase'[t] # "inflight" \/ pc'[t] # pc[t])
        => /\ (settled'.status = "rejected" /\ phase'[t] = "idle")
              => /\ UNCHANGED <<touChargingValues, touDischargingValues>>
                 /\ settled' = Promise(op[t], "rejected", "transport", NoValue, merged[t])
                 /\ op'[t] = "idle"
           /\ pc[t] = 1 => UNCHANGED <<touChargingValues, touDischargingValues>>
           /\ \A d \in Domains :
                Cache(d)' # Cache(d) => (d = DomainOf(op[t]) /\ RefreshReturns(t))]_vars

\* C30 witness: a refresh was rejected at a failed read and the cache of its
\* domain is still the defaults, which are not what the device holds
C30_Witness ==
    /\ settled.cmd \in GetCommands
    /\ settled.status = "rejected"
    /\ settled.error = "transport"
    /\ Cache(DomainOf(settled.cmd)) = Defaults(layout, DomainOf(settled.cmd))
    /\ DecodedFrom(layout, DomainOf(settled.cmd), holding) # Cache(DomainOf(settled.cmd))

----------------------------------------------------------------------------
(* Decoding stays inside the windows read *)

\* C31: what a refresh stores and what getSensorData returns is decoded from
\* words of the windows read only: it is the same object when every window is
\* followed by one more word, whatever that word is, in all three layouts
C31_DecodesInsideWindow ==
    [][\A t \in Tasks, more \in {1, 1285} :
        (/\ phase[t] = "inflight"
         /\ phase'[t] # "inflight" \/ pc'[t] # pc[t]
         /\ settled'.status = "fulfilled" \/ op'[t] = op[t])
        => /\ \A d \in Domains :
                AssignedAt(op[t], pc[t]) = d
                => Cache(d)' = Decode(layout, d,
                                      Append(data[t][Len(data[t])], more),
                                      Append(HoldingWindow(holding, CallOf(t)), more))
           /\ (op[t] = "getSensorData" /\ pc[t] = Len(plan[t]))
              => settled'.value =
                    SensorValues(layout,
                        [k \in 1..Len(plan[t]) |->
                            Append(IF k < Len(plan[t]) THEN data[t][k]
                                   ELSE InputWindow(input, CallOf(t)), more)])]_vars

----------------------------------------------------------------------------
(* The seed values of the caches *)

\* C32: a set command issues writes only for a domain that has left its
\* defaults through a refresh or a merge: dispatched before any other command
\* was submitted and before any merge was made, it makes and queues no write
C32_NoFlushFromDefault ==
    [][\A t \in Tasks, cmd \in SetCommands :
        (/\ opsLeft = StoreOps
         /\ mergesLeft = StoreMerges
         /\ DispatchesSet(t, cmd))
        => /\ op'[t] # cmd
           /\ UNCHANGED <<plan, pc, phase, issued, mutexLocked>>]_vars

----------------------------------------------------------------------------
(* The ranges getControlEntities advertises *)

\* getControlEntities: the min and max of the entities of type "number" of a
\* domain, by the field their command_template sets; the entities of
\* startMinute1 and stopMinute1 of the extended-schedule layout have neither
ControlEntities(l, d) ==
    LET Range(lo, hi) == [bounded |-> TRUE, min |-> lo, max |-> hi]
        Unbounded == [bounded |-> FALSE, min |-> 0, max |-> 0]
    IN  IF l = 3
        THEN [f \in Fields(3, d) \ SwitchFields |->
                IF f \in HourFields THEN Range(0, 23)
                ELSE IF f \in {"startMinute1", "stopMinute1"} THEN Unbounded
                ELSE IF f \in MinuteFields THEN Range(0, 59)
                ELSE Range(0, 100)]
        ELSE [f \in Fields(l, d) |->
                IF f = "uwAC2BatVolt" THEN (IF l = 1 THEN Range(0, 100) ELSE Range(30, 100))
                ELSE IF f = "batLowToUtiVolt" THEN (IF l = 1 THEN Range(0, 100) ELSE Range(20, 100))
                ELSE IF f = "chargeConfig" THEN Range(0, 2)
                ELSE Range(0, 23)]

\* C33: for every numeric field of every domain, a whole number is inside the
\* range the field's entity advertises exactly when the domain's state with
\* that number merged into the field passes the set command's validation
C33_AdvertisedIsEnforced ==
    \A d \in Domains :
        /\ DOMAIN ControlEntities(layout, d)
              = {f \in Fields(layout, d) : Schema(layout, d)[f].type = "number"}
        /\ \A f \in DOMAIN ControlEntities(layout, d), v \in (0 - 1)..101 :
              LET entity == ControlEntities(layout, d)[f]
              IN  (entity.bounded => (entity.min <= v /\ v <= entity.max))
                  <=> Validate(layout, d, Assign(Defaults(layout, d), f, Whole(v)))

----------------------------------------------------------------------------
(* Every operation completes *)

\* the extended-schedule adapter, no merges
InitLive == Start(MaxOps, 0) /\ layout = 3

\* the arbiter on a channel whose every call returns or fails in the end
SpecLive ==
    InitLive /\ [][Next]_vars /\ WF_vars(\E t \in Tasks, ok \in BOOLEAN : Complete(t, ok))

\* C34: when every channel call returns or fails in the end, every operation
\* that was submitted completes, with a result or a failure, whatever runs
\* beside it and whatever failed before (an operation that waits for the
\* mutex completes only through the call it waits to make)
C34_EveryOperationCompletes ==
    \A t \in Tasks : (phase[t] # "idle") ~> (phase[t] = "idle")

\* C34 witness: an operation waits for the mutex behind another while the
\* last operation to complete ended with a failed channel call
C34_Witness ==
    /\ settled.status = "rejected"
    /\ settled.error = "transport"
    /\ Len(mutexQueue) >= 1
    /\ \E t \in Tasks : phase[t] = "inflight"

----------------------------------------------------------------------------
(* The chunked sensor read against the single-window read *)

\* C35: whatever the input registers hold, every field that the object of the
\* chunked getSensorData (windows at 0, 26, 51 and 76) has in common with the
\* object parseInputRegisters builds from the one window of registers 0..89
\* has the same value in both
C35_ChunkedEqualsSingle ==
    (SensorReturned /\ layout = 2)
    => LET single == SensorValues(1, << InputWindow(input, SensorPlan(1)[1]) >>)
       IN  \A f \in DOMAIN settled.value \cap DOMAIN single :
              settled.value[f] = single[f]

----------------------------------------------------------------------------
(* Register words: control messages that assign JSON numbers, whole and     *)
(* fractional, followed by set commands                                     *)

\* the parsed control messages that assign one numeric field a JSON number:
\* whole and fractional values inside the bounds of the schema, and a
\* fractional value above the maximum
NumberMessages(l) ==
    IF l = 3
    THEN {[subTopic |-> d, control |-> (f :> Num(tenths))] :
            d \in Domains,
            f \in {"chargePower", "stopSOC", "dischargePower", "dischargeStopSOC",
                   "startHour1", "startMinute1", "stopHour3", "stopMinute3"},
            tenths \in {0, 5, 75, 80, 225, 1000, 1005}}
    ELSE {[subTopic |-> d, control |-> (f :> Num(tenths))] :
            d \in Domains,
            f \in {"uwAC2BatVolt", "chargeConfig", "utiChargeStart", "utiChargeEnd",
                   "batLowToUtiVolt", "utiOutStart", "utiOutEnd"},
            tenths \in {0, 15, 20, 225, 305, 505, 900, 1005}}

InitNumber == Start(ControlOps, ControlMerges)

NextNumber ==
    \/ \E m \in NumberMessages(layout) : UpdateControl(m.subTopic, m.control)
    \/ \E t \in Tasks, cmd \in SetCommands : SetTou(t, cmd)
    \/ \E t \in Tasks : Complete(t, TRUE)

SpecNumber == InitNumber /\ [][NextNumber]_vars

\* C36: every word of every array a set command hands to writeRegisters is
\* an integer between 0 and 65535, whatever JSON numbers updateControl merged
\* into the cached state that passed validation
C36_WordsAreIntegers ==
    \A t \in Tasks :
        (op[t] \in SetCommands /\ phase[t] = "inflight")
        => \A i \in 1..Len(CallOf(t).values) :
              /\ IsInteger(CallOf(t).values[i])
              /\ ToInt32(CallOf(t).values[i]) \in 0..65535

====
